---- MODULE Spec2Model ----
(***************************************************************************)
(* Model of the d2pt grid updater (grid-updater.ts): the ledger grids.md,  *)
(* the sidecar last_update.txt, the README metadata line and the grids     *)
(* folder, and one run of main() in normal, force or repair mode; of the   *)
(* standalone downloader (playwright-script.ts); and of the hash generator *)
(* (generate_hashes.ts) with its dictionary grid_hashes.txt; and of the    *)
(* desktop shell (app/src/App.tsx): its preferences and its listing.       *)
(*                                                                         *)
(* Text files are sequences of lines, as String.split(/\r?\n/) yields      *)
(* them: the empty text is the one-line text <<"">> and a text ending in   *)
(* a newline has a last empty line.  A file that does not exist is <<>>.   *)
(* A line of grids.md is the sequence of its trimmed '|'-separated cells,  *)
(* as row.split("|").map(trim) yields them: "| a | b |" is <<"",a,b,"">>.  *)
(* A line of README.md is a sequence whose first element is the leading    *)
(* token of the line.  A line of last_update.txt is a string.              *)
(***************************************************************************)
EXTENDS Integers, Sequences, FiniteSets, TLC

VARIABLES
  md,      \* grids.md
  lu,      \* last_update.txt
  readme,  \* README.md
  grids,   \* the file names in ./grids
  last,    \* the most recent run: its program, flags, page, locals and events
  budget,  \* runs left in this behaviour
  seen,    \* releases for which a normal-mode run counted three buttons, in
           \* order; under SpecHashes, the file names that have had an entry
           \* in grid_hashes.txt; under SpecCodec, the entries rendered;
           \* under SpecSidecar, the pair last written to last_update.txt;
           \* under SpecApp, the preferences the user has changed, the
           \* value last chosen for each, and the grids last listed
  bytes,   \* the content of each file in ./grids
  hashes,  \* grid_hashes.txt
  localStorage,  \* the desktop shell's window.localStorage
  app      \* the desktop shell's component state (App.tsx)

vars == <<md, lu, readme, grids, last, budget, seen, bytes, hashes, localStorage, app>>

----------------------------------------------------------------------------
(* Bounds of the model *)

\* runs of main() in a behaviour that starts from arbitrary files
MaxRunsAny == 1

\* runs of main() in a behaviour that starts from an empty ledger
MaxRuns == 3

\* normal-mode runs in a row in a behaviour that starts from arbitrary files
MaxRepeat == 2

\* largest number of download buttons a page shows
MaxButtons == 4

\* runs in a behaviour whose downloads may throw
MaxRunsFaults == 1

\* runs in a behaviour that starts without bookkeeping files
MaxRunsHistory == 4

\* calls of the two README functions in a row
MaxCalls == 3

\* changes of ./grids and runs of the hash generator in a behaviour
MaxHashSteps == 5

\* entries of a rendered ledger
MaxEntries == 2

\* writes and edits of last_update.txt in a row
MaxSidecarSteps == 3

----------------------------------------------------------------------------
(* Values *)

Absent == <<>>

BlankLine == <<"">>

EmptyText == <<BlankLine>>

\* the loops `for (let i = 0; i < 3; i++)` and the test `buttonCount < 3`
NumGrids == 3

\* cells that begin with two dashes (every cell that begins with one dash
\* in this model begins with two, except "-")
DashCells2 == {"--", "----", "-----", "-----------", "------------"}

DashCells1 == DashCells2 \cup {"-"}

HeaderLine == <<"", "Date", "Patch", "D2PT Rating", "High Winrate", "Most Played", "">>

SepLine == <<"", "----", "-----", "-----------", "------------", "-----------", "">>

\* file names the site suggests for the three buttons, ".json" stripped
Suggested == <<"d2pt_rating", "high_winrate", "most_played">>

----------------------------------------------------------------------------
(* Scrape: date formatting and patch slug *)

Pad2(n) == IF n < 10 THEN "0" \o ToString(n) ELSE ToString(n)

InvalidDate == <<>>

\* mutant: the month is taken as getMonth() gives it, without the + 1
FormatDate_zeroBasedMonth(dt) ==
  ToString(dt[1]) \o "-" \o Pad2(dt[2] - 1) \o "-" \o Pad2(dt[3])

FormatDate(dt) == ToString(dt[1]) \o "-" \o Pad2(dt[2]) \o "-" \o Pad2(dt[3])

RECURSIVE JoinWith(_, _)
JoinWith(parts, sep) ==
  IF Len(parts) = 0 THEN ""
  ELSE IF Len(parts) = 1 THEN parts[1]
  ELSE parts[1] \o sep \o JoinWith(Tail(parts), sep)

\* pg.info: the 'Last update:' element exists and its text matches the regex
\* pg.date: <<y, m, d>> of new Date(rawDate), or InvalidDate
\* pg.patch: the patch token split at its dots
Scrape(pg) ==
  IF pg.info
  THEN [dateStr  |-> IF pg.date # InvalidDate THEN FormatDate(pg.date) ELSE "unknown_date",
        rawPatch |-> JoinWith(pg.patch, "."),
        patchStr |-> "p" \o JoinWith(pg.patch, "_")]
  ELSE [dateStr  |-> "unknown_date",
        rawPatch |-> "unknown_patch_raw",
        patchStr |-> "unknown_patch"]

----------------------------------------------------------------------------
(* Ledger codec *)

\* index of the first non-empty cell of a line, 0 when all are empty
FirstNonEmpty(ln) ==
  IF \E i \in 1..Len(ln) : ln[i] # ""
  THEN CHOOSE i \in 1..Len(ln) : ln[i] # "" /\ \A j \in 1..(i-1) : ln[j] = ""
  ELSE 0

\* /^\|?\s*-{2,}/.test(ln.replace(/\|/g, " "))
IsSepLine(ln) ==
  LET i == FirstNonEmpty(ln) IN i # 0 /\ ln[i] \in DashCells2

\* 1-based index of the separator line, 0 for none (the code's -1)
SepIndex(lines) ==
  IF \E i \in 1..Len(lines) : IsSepLine(lines[i])
  THEN CHOOSE i \in 1..Len(lines) :
         IsSepLine(lines[i]) /\ \A j \in 1..(i-1) : ~IsSepLine(lines[j])
  ELSE 0

NullRow == <<>>

\* /^\|\s*-+/.test(row)
IsDashRow(row) == Len(row) >= 2 /\ row[1] = "" /\ row[2] \in DashCells1

\* <<date, patch>> of the line after the separator ("" for undefined), or NullRow
parseFirstRowFromMd(content) ==
  IF content = EmptyText THEN NullRow
  ELSE LET sepIndex == SepIndex(content)
           dataLineIndex == sepIndex + 1
       IN IF sepIndex = 0 THEN NullRow
          ELSE IF dataLineIndex > Len(content) THEN NullRow
          ELSE LET row == content[dataLineIndex]
               IN IF row = <<"">> \/ row = <<"", "">> \/ IsDashRow(row) THEN NullRow
                  ELSE IF Len(row) < 3 THEN NullRow
                  ELSE <<row[2], row[3]>>

\* a row the scan of hasEntryInMd looks at
IsDataRow(row) == row # <<"">> /\ row # <<"", "">> /\ Len(row) >= 3

\* mutant: the date and patch are read one column too far to the left
hasEntryInMd_wrongColumn(content, date, patchA, patchB) ==
  IF content = EmptyText THEN FALSE
  ELSE LET sepIndex == SepIndex(content)
       IN IF sepIndex = 0 THEN FALSE
          ELSE \E i \in (sepIndex + 1)..Len(content) :
                 /\ IsDataRow(content[i])
                 /\ content[i][1] = date
                 /\ \/ content[i][2] = patchA
                    \/ (patchB # "" /\ content[i][2] = patchB)

hasEntryInMd(content, date, patchA, patchB) ==
  IF content = EmptyText THEN FALSE
  ELSE LET sepIndex == SepIndex(content)
       IN IF sepIndex = 0 THEN FALSE
          ELSE \E i \in (sepIndex + 1)..Len(content) :
                 /\ IsDataRow(content[i])
                 /\ content[i][2] = date
                 /\ \/ content[i][3] = patchA
                    \/ (patchB # "" /\ content[i][3] = patchB)

FileName(suggested, date, slug) == suggested \o "_" \o date \o "_" \o slug \o ".json"

\* linkFile: a missing file name gives an empty cell
LinkFile(saved, i) ==
  IF i <= Len(saved) THEN "[Download](grids/" \o saved[i] \o ")" ELSE ""

NewRow(date, patch, saved) ==
  <<"", date, patch, LinkFile(saved, 1), LinkFile(saved, 2), LinkFile(saved, 3), "">>

NewTable(row) == <<HeaderLine, SepLine, row, BlankLine>>

InsertAt(lines, i, new) ==
  SubSeq(lines, 1, i) \o new \o SubSeq(lines, i + 1, Len(lines))

\* mutant: the new row is appended to the file instead of spliced in
InsertRow_atEnd(mdContent, newRow) ==
  IF mdContent = EmptyText THEN NewTable(newRow)
  ELSE LET sepIndex == SepIndex(mdContent)
       IN IF sepIndex = 0
          THEN mdContent \o <<BlankLine>> \o NewTable(newRow)
          ELSE InsertAt(mdContent, Len(mdContent), <<newRow>>)

\* mutant: splice(sepIndex + 1, 1, newRow), which replaces the newest row
InsertRow_overwrite(mdContent, newRow) ==
  IF mdContent = EmptyText THEN NewTable(newRow)
  ELSE LET sepIndex == SepIndex(mdContent)
       IN IF sepIndex = 0
          THEN mdContent \o <<BlankLine>> \o NewTable(newRow)
          ELSE SubSeq(mdContent, 1, sepIndex) \o <<newRow>>
               \o SubSeq(mdContent, sepIndex + 2, Len(mdContent))

\* the ledger text written at lines 420-441 when the entry is missing
InsertRow(mdContent, newRow) ==
  IF mdContent = EmptyText THEN NewTable(newRow)
  ELSE LET sepIndex == SepIndex(mdContent)
       IN IF sepIndex = 0
          THEN mdContent \o <<BlankLine>> \o NewTable(newRow)
          ELSE InsertAt(mdContent, sepIndex, <<newRow>>)

----------------------------------------------------------------------------
(* Ledger codec on the characters of a line.  Here a line is the sequence  *)
(* of its tokens: "|", " " and words (strings without '|' and blanks), and *)
(* a date, a patch or a link is a sequence of tokens too.                  *)

Bar == "|"

Sp == " "

RECURSIVE TrimLeft(_)
TrimLeft(t) == IF t # <<>> /\ Head(t) = Sp THEN TrimLeft(Tail(t)) ELSE t

RECURSIVE TrimRight(_)
TrimRight(t) ==
  IF t # <<>> /\ t[Len(t)] = Sp THEN TrimRight(SubSeq(t, 1, Len(t) - 1)) ELSE t

\* mutant: the cells are taken as split leaves them
Trim_none(t) == t

\* s.trim()
Trim(t) == TrimRight(TrimLeft(t))

\* row.split("|"), the piece in hand and the pieces so far carried along
RECURSIVE SplitFrom(_, _, _)
SplitFrom(t, piece, pieces) ==
  IF t = <<>> THEN Append(pieces, piece)
  ELSE IF Head(t) = Bar THEN SplitFrom(Tail(t), <<>>, Append(pieces, piece))
  ELSE SplitFrom(Tail(t), Append(piece, Head(t)), pieces)

\* row.split("|").map((s) => s.trim())
TextCols(row) ==
  [i \in 1..Len(SplitFrom(row, <<>>, <<>>)) |-> Trim(SplitFrom(row, <<>>, <<>>)[i])]

\* the first token of a line that is neither '|' nor ' ', "" for none
FirstWord(ln) ==
  IF \E i \in 1..Len(ln) : ln[i] \notin {Bar, Sp}
  THEN ln[CHOOSE i \in 1..Len(ln) :
            ln[i] \notin {Bar, Sp} /\ \A j \in 1..(i-1) : ln[j] \in {Bar, Sp}]
  ELSE ""

\* /^\|?\s*-{2,}/.test(ln.replace(/\|/g, " "))
IsSepText(ln) == FirstWord(ln) \in DashCells2

\* 1-based index of the separator line, 0 for none
SepTextIndex(lines) ==
  IF \E i \in 1..Len(lines) : IsSepText(lines[i])
  THEN CHOOSE i \in 1..Len(lines) :
         IsSepText(lines[i]) /\ \A j \in 1..(i-1) : ~IsSepText(lines[j])
  ELSE 0

\* lines 218-221: the rows the loop of hasEntryInMd does not skip
IsScannedRow(ln) ==
  /\ Trim(ln) # <<>>
  /\ Trim(ln) # <<Bar>>
  /\ Len(TextCols(Trim(ln))) >= 3

RECURSIVE DateAndPatch(_)
DateAndPatch(rows) ==
  IF rows = <<>> THEN <<>>
  ELSE << <<TextCols(Trim(Head(rows)))[2], TextCols(Trim(Head(rows)))[3]>> >>
       \o DateAndPatch(Tail(rows))

\* lines 205-227: the (d, p) pairs hasEntryInMd compares, top to bottom
ScanRows(lines) ==
  IF lines = <<>> \/ lines = << <<>> >> \/ SepTextIndex(lines) = 0 THEN <<>>
  ELSE DateAndPatch(SelectSeq(SubSeq(lines, SepTextIndex(lines) + 1, Len(lines)),
                              IsScannedRow))

\* linkFile at lines 413-414; "[*" stands for the bracket and the link sign
LinkText(fname) ==
  IF fname # "" THEN <<"[*", Sp, "Download](grids/" \o fname \o ")">> ELSE <<>>

\* the template of lines 415-417
RenderRow(e) ==
  <<Bar, Sp>> \o e.date \o <<Sp, Bar, Sp>> \o e.patch
  \o <<Sp, Bar, Sp>> \o LinkText(e.files[1])
  \o <<Sp, Bar, Sp>> \o LinkText(e.files[2])
  \o <<Sp, Bar, Sp>> \o LinkText(e.files[3]) \o <<Sp, Bar>>

\* "| Date | Patch | D2PT Rating | High Winrate | Most Played |"
HeaderText ==
  <<Bar, Sp, "Date", Sp, Bar, Sp, "Patch", Sp, Bar, Sp, "D2PT", Sp, "Rating", Sp,
    Bar, Sp, "High", Sp, "Winrate", Sp, Bar, Sp, "Most", Sp, "Played", Sp, Bar>>

\* "| ---- | ----- | ----------- | ------------ | ----------- |"
SepText ==
  <<Bar, Sp, "----", Sp, Bar, Sp, "-----", Sp, Bar, Sp, "-----------", Sp,
    Bar, Sp, "------------", Sp, Bar, Sp, "-----------", Sp, Bar>>

\* the table of line 422 with one row per entry: header, separator, the
\* rows, and the empty line after the last newline
Serialize(entries) ==
  <<HeaderText, SepText>> \o [i \in 1..Len(entries) |-> RenderRow(entries[i])]
  \o << <<>> >>

\* the text "" as split yields it: one line without tokens
NoText == << <<>> >>

\* mutant: the scan stops at the first row it cannot split into three cells
RECURSIVE ScanFrom_stopAtShortRow(_, _, _, _, _)
ScanFrom_stopAtShortRow(lines, i, date, patchA, patchB) ==
  IF i > Len(lines) THEN FALSE
  ELSE IF Trim(lines[i]) = <<>> \/ Trim(lines[i]) = <<Bar>>
  THEN ScanFrom_stopAtShortRow(lines, i + 1, date, patchA, patchB)
  ELSE IF Len(TextCols(Trim(lines[i]))) < 3
  THEN FALSE
  ELSE IF /\ TextCols(Trim(lines[i]))[2] = date
          /\ \/ TextCols(Trim(lines[i]))[3] = patchA
             \/ (patchB # <<>> /\ TextCols(Trim(lines[i]))[3] = patchB)
  THEN TRUE
  ELSE ScanFrom_stopAtShortRow(lines, i + 1, date, patchA, patchB)

\* the loop of lines 217-227 from line i on; "not given" is <<>> for patchB
RECURSIVE ScanFrom(_, _, _, _, _)
ScanFrom(lines, i, date, patchA, patchB) ==
  IF i > Len(lines) THEN FALSE
  ELSE IF Trim(lines[i]) = <<>> \/ Trim(lines[i]) = <<Bar>>
  THEN ScanFrom(lines, i + 1, date, patchA, patchB)
  ELSE IF Len(TextCols(Trim(lines[i]))) < 3
  THEN ScanFrom(lines, i + 1, date, patchA, patchB)
  ELSE IF /\ TextCols(Trim(lines[i]))[2] = date
          /\ \/ TextCols(Trim(lines[i]))[3] = patchA
             \/ (patchB # <<>> /\ TextCols(Trim(lines[i]))[3] = patchB)
  THEN TRUE
  ELSE ScanFrom(lines, i + 1, date, patchA, patchB)

\* hasEntryInMd, lines 199-229, on the tokens of the text
hasEntryInText(lines, date, patchA, patchB) ==
  IF lines = NoText THEN FALSE
  ELSE IF SepTextIndex(lines) = 0 THEN FALSE
  ELSE ScanFrom(lines, SepTextIndex(lines) + 1, date, patchA, patchB)

\* /^\|\s*-+/.test(row)
IsDashText(row) ==
  /\ row # <<>> /\ Head(row) = Bar
  /\ TrimLeft(Tail(row)) # <<>>
  /\ Head(TrimLeft(Tail(row))) \in DashCells1

\* lines 111-117: the row after the separator, trimmed
FirstRowOf(row) ==
  IF row = <<>> \/ row = <<Bar>> \/ IsDashText(row) THEN NullRow
  ELSE IF Len(TextCols(row)) < 3 THEN NullRow
  ELSE <<TextCols(row)[2], TextCols(row)[3]>>

\* parseFirstRowFromMd, lines 95-118, on the tokens of the text: <<date,
\* patch>>, <<>> for an undefined one, or NullRow
parseFirstRowFromText(lines) ==
  IF lines = NoText THEN NullRow
  ELSE IF SepTextIndex(lines) = 0 THEN NullRow
  ELSE IF SepTextIndex(lines) + 1 > Len(lines) THEN NullRow
  ELSE FirstRowOf(Trim(lines[SepTextIndex(lines) + 1]))

\* mutant: the row goes to the end of the text
InsertText_atEnd(lines, newRow) ==
  IF lines = NoText THEN <<HeaderText, SepText, newRow, <<>>>>
  ELSE IF SepTextIndex(lines) = 0
  THEN lines \o << <<>>, HeaderText, SepText, newRow, <<>> >>
  ELSE lines \o <<newRow>>

\* lines 420-441: newMd, on the tokens of the text
InsertText(lines, newRow) ==
  IF lines = NoText THEN <<HeaderText, SepText, newRow, <<>>>>
  ELSE IF SepTextIndex(lines) = 0
  THEN lines \o << <<>>, HeaderText, SepText, newRow, <<>> >>
  ELSE InsertAt(lines, SepTextIndex(lines), <<newRow>>)

----------------------------------------------------------------------------
(* Metadata store *)

NullLU == <<>>

\* <<patch, date>> or NullLU
readLastUpdateFile(file) ==
  IF file = Absent THEN NullLU
  ELSE LET patch == file[1]
           date == IF Len(file) >= 2 THEN file[2] ELSE ""
       IN IF patch = "" \/ date = "" THEN NullLU ELSE <<patch, date>>

\* mutant: the two lines are written in the wrong order
writeLastUpdateFile_swapped(patch, date) == <<date, patch, "">>

writeLastUpdateFile(patch, date) == <<patch, date, "">>

\* last_update.txt on the characters of its lines: a line is the sequence of
\* its tokens (words and " "), a patch and a date are sequences of tokens.
\* A path fs.readFile rejects although it exists (a directory, no permission):
Unreadable == << <<"EACCES">> >>

\* fs.readFile(LAST_UPDATE_FILE, "utf8") rejects
ReadFileThrows(file) == file = Absent \/ file = Unreadable

Thrown == <<"throw">>

\* mutant: the rejection of fs.readFile is not caught
readLastUpdateText_noCatch(file) ==
  IF ReadFileThrows(file) THEN Thrown
  ELSE IF Trim(file[1]) = <<>> THEN NullLU
  ELSE IF Len(file) < 2 THEN NullLU
  ELSE IF Trim(file[2]) = <<>> THEN NullLU
  ELSE <<Trim(file[1]), Trim(file[2])>>

\* readLastUpdateFile, lines 232-245: <<patch, date>>, or NullLU
readLastUpdateText(file) ==
  IF ReadFileThrows(file) THEN NullLU
  ELSE IF Trim(file[1]) = <<>> THEN NullLU
  ELSE IF Len(file) < 2 THEN NullLU
  ELSE IF Trim(file[2]) = <<>> THEN NullLU
  ELSE <<Trim(file[1]), Trim(file[2])>>

\* writeLastUpdateFile, lines 247-253: `${patch}\n${date}\n`
writeLastUpdateText(patch, date) == <<patch, date, <<>>>>

LastUpdateLine(patch, date) == <<"**Last update**:", date, patch, "see grids.md">>

\* /^\*{0,2}Last update\*{0,2}\s*:/i
IsLastUpdateLine(ln) ==
  ln[1] \in {"**Last update**:", "Last update:", "last update :"}

\* /^#\s+/
IsTitleLine(ln) == ln[1] = "#"

\* index of the first 'Last update' line, 0 for none
LastUpdateIndex(lines) ==
  IF \E i \in 1..Len(lines) : IsLastUpdateLine(lines[i])
  THEN CHOOSE i \in 1..Len(lines) :
         IsLastUpdateLine(lines[i]) /\ \A j \in 1..(i-1) : ~IsLastUpdateLine(lines[j])
  ELSE 0

\* index of the first top-level heading, 0 for none (the code's -1)
TitleIndex(lines) ==
  IF \E i \in 1..Len(lines) : IsTitleLine(lines[i])
  THEN CHOOSE i \in 1..Len(lines) :
         IsTitleLine(lines[i]) /\ \A j \in 1..(i-1) : ~IsTitleLine(lines[j])
  ELSE 0

MinimalReadme(patch, date) ==
  << <<"#", "d2pt-grid-updater">>, BlankLine, LastUpdateLine(patch, date), BlankLine >>

InsertLastUpdate(lines, patch, date) ==
  IF TitleIndex(lines) # 0
     THEN InsertAt(lines, TitleIndex(lines), <<BlankLine, LastUpdateLine(patch, date)>>)
     ELSE lines \o <<BlankLine, LastUpdateLine(patch, date)>>

\* a variant that never replaces a line
updateReadmeLastUpdate_insertOnly(file, patch, date) ==
  IF file = Absent THEN MinimalReadme(patch, date)
  ELSE InsertLastUpdate(file, patch, date)

\* the README text after updateReadmeLastUpdate (it always writes)
updateReadmeLastUpdate(file, patch, date) ==
  IF file = Absent THEN MinimalReadme(patch, date)
  ELSE IF LastUpdateIndex(file) # 0
  THEN [file EXCEPT ![LastUpdateIndex(file)] = LastUpdateLine(patch, date)]
  ELSE InsertLastUpdate(file, patch, date)

\* a line of README.md that holds a carriage return without a line feed,
\* directly followed by 'Last update:'.  split(/\r?\n/) does not cut it.
CrLine == <<"text<CR>Last update:", "by hand">>

\* /^\*{0,2}Last update\*{0,2}\s*:/im.test(readme): with the m flag, ^ also
\* matches after a carriage return inside a line
MultilineMatch(file) ==
  \E i \in 1..Len(file) : IsLastUpdateLine(file[i]) \/ file[i] = CrLine

\* ensureReadmeHasLastUpdate writes unless its pattern matches the text
ensureWrites(file) ==
  file = Absent \/ ~MultilineMatch(file)

ensureReadmeHasLastUpdate(file, patch, date) ==
  IF file = Absent THEN MinimalReadme(patch, date)
  ELSE IF ~ensureWrites(file) THEN file
  ELSE InsertLastUpdate(file, patch, date)

----------------------------------------------------------------------------
(* One run of main().  Each operator below takes the locals computed so    *)
(* far as parameters and continues the run from there.                     *)

\* The download loop.  failAt = 0: the three downloads succeed; failAt = i:
\* page.waitForEvent/click/saveAs of button i throws.
DownloadCount(failAt) == IF failAt = 0 THEN NumGrids ELSE failAt - 1

ClickSave(i) == <<"click" \o ToString(i), "save" \o ToString(i)>>

\* a variant that clicks the three buttons before it saves a file
DownloadEvents_allAtOnce(n) ==
  IF n = 0 THEN <<>>
  ELSE IF n = 1 THEN ClickSave(1)
  ELSE IF n = 2 THEN <<"click1", "click2", "save1", "save2">>
  ELSE <<"click1", "click2", "click3", "save1", "save2", "save3">>

DownloadEvents(n) ==
  IF n = 0 THEN <<>>
  ELSE IF n = 1 THEN ClickSave(1)
  ELSE IF n = 2 THEN ClickSave(1) \o ClickSave(2)
  ELSE ClickSave(1) \o ClickSave(2) \o ClickSave(3)

DownloadLoop(date, slug, failAt) ==
  [saved |-> [i \in 1..DownloadCount(failAt) |-> FileName(Suggested[i], date, slug)],
   ev    |-> DownloadEvents(DownloadCount(failAt))
             \o (IF failAt = 0 THEN <<>> ELSE <<"click" \o ToString(failAt)>>),
   threw |-> failAt # 0]

FilesOf(saved) == {saved[i] : i \in 1..Len(saved)}

\* entry_exists, is_same: the locals of lines 334-339; counted: the run read
\* buttonCount at line 366 and found at least three
NoLocals == [entry_exists |-> FALSE, is_same |-> FALSE, counted |-> FALSE]

\* what a run leaves: the four stores, the events in order, the saved files,
\* whether main() threw, and the locals that chose the branch
Result(d, ev, saved, threw, loc) ==
  [md |-> d.md, lu |-> d.lu, readme |-> d.readme,
   grids |-> d.grids \cup FilesOf(saved),
   ev |-> ev, saved |-> saved, threw |-> threw, loc |-> loc]

MdContent(d) == IF d.md = Absent THEN EmptyText ELSE d.md

\* mutant: the second operand wins when it is defined
OrElse_secondFirst(a, b) == IF b # "" THEN b ELSE a

\* a || b on strings, "" standing for undefined
OrElse(a, b) == IF a # "" THEN a ELSE b

RowDate(mdRow) == IF mdRow = NullRow THEN "" ELSE mdRow[1]

RowPatch(mdRow) == IF mdRow = NullRow THEN "" ELSE mdRow[2]

SiteDate(s) == IF s.dateStr # "unknown_date" THEN s.dateStr ELSE ""

SitePatch(s) == IF s.rawPatch # "unknown_patch_raw" THEN s.rawPatch ELSE ""

\* lines 179-195: both sidecars from the resolved pair, then close
RepairMetadata(d, patch, date, ev, saved) ==
  Result([d EXCEPT !.lu = writeLastUpdateFile(patch, date),
                   !.readme = updateReadmeLastUpdate(d.readme, patch, date)],
         ev \o <<"writeLu", "writeReadme", "close">>, saved, FALSE, NoLocals)

\* mutant: the table is written from the files saved before the exception
RepairRebuild_writeOnThrow(d, patch, date, effectiveDate, dl) ==
  RepairMetadata([d EXCEPT !.md = NewTable(NewRow(effectiveDate, patch, dl.saved))],
                 patch, date,
                 dl.ev \o (IF dl.threw THEN <<"caught", "writeMd">> ELSE <<"writeMd">>),
                 dl.saved)

\* lines 166-177: the table is written unless a download threw (caught at 175)
RepairRebuild(d, patch, date, effectiveDate, dl) ==
  IF dl.threw
  THEN RepairMetadata(d, patch, date, dl.ev \o <<"caught">>, dl.saved)
  ELSE RepairMetadata([d EXCEPT !.md = NewTable(NewRow(effectiveDate, patch, dl.saved))],
                      patch, date, dl.ev \o <<"writeMd">>, dl.saved)

\* lines 128-196.  In the rebuild the pair comes from the scrape, so
\* effectiveDate is dateStr, and effectivePatchStr is patchStr (which is
\* "unknown_patch" or "p..." and never "punknown_patch_raw").
RepairResolved(d, buttons, failAt, s, needsRebuild, patchForRepair, dateForRepair) ==
  IF patchForRepair # "" /\ dateForRepair # ""
  THEN IF needsRebuild /\ buttons >= NumGrids
       THEN RepairRebuild(d, patchForRepair, dateForRepair, OrElse(SiteDate(s), dateForRepair),
                          DownloadLoop(OrElse(SiteDate(s), dateForRepair), s.patchStr, failAt))
       ELSE RepairMetadata(d, patchForRepair, dateForRepair, <<>>, <<>>)
  ELSE Result(d, <<"close">>, <<>>, FALSE, NoLocals)

\* mutant: the rebuild is attempted whatever the ledger holds
RepairWith_alwaysRebuild(d, buttons, failAt, s, mdRow) ==
  RepairResolved(d, buttons, failAt, s, TRUE,
                 OrElse(RowPatch(mdRow), SitePatch(s)),
                 OrElse(RowDate(mdRow), SiteDate(s)))

\* lines 122-128
RepairWith(d, buttons, failAt, s, mdRow) ==
  RepairResolved(d, buttons, failAt, s, mdRow = NullRow,
                 OrElse(RowPatch(mdRow), SitePatch(s)),
                 OrElse(RowDate(mdRow), SiteDate(s)))

\* lines 121-196
RepairRun(d, pg, failAt) ==
  RepairWith(d, pg.buttons, failAt, Scrape(pg), parseFirstRowFromMd(MdContent(d)))

\* lines 334-338
SameAs(lastRecorded, s) ==
  /\ lastRecorded # NullLU
  /\ lastRecorded[2] = s.dateStr
  /\ (lastRecorded[1] = s.rawPatch \/ lastRecorded[1] = s.patchStr)

\* mutant: the no-op branch replaces the README line instead of ensuring it
NoUpdate_replace(d, lastRecorded, loc) ==
  Result([d EXCEPT !.readme =
             updateReadmeLastUpdate(d.readme, lastRecorded[1], lastRecorded[2])],
         <<"writeReadme", "close">>, <<>>, FALSE, loc)

\* lines 341-350: insert the README line if there is none
NoUpdate(d, lastRecorded, loc) ==
  Result([d EXCEPT !.readme =
             ensureReadmeHasLastUpdate(d.readme, lastRecorded[1], lastRecorded[2])],
         (IF ensureWrites(d.readme) THEN <<"writeReadme">> ELSE <<>>) \o <<"close">>,
         <<>>, FALSE, loc)

\* mutant: the resync branch forgets last_update.txt
MetadataResync_readmeOnly(d, s, loc) ==
  Result([d EXCEPT !.readme = updateReadmeLastUpdate(d.readme, s.rawPatch, s.dateStr)],
         <<"writeReadme", "close">>, <<>>, FALSE, loc)

\* lines 351-357: both sidecars from the scrape
MetadataResync(d, s, loc) ==
  Result([d EXCEPT !.lu = writeLastUpdateFile(s.rawPatch, s.dateStr),
                   !.readme = updateReadmeLastUpdate(d.readme, s.rawPatch, s.dateStr)],
         <<"writeLu", "writeReadme", "close">>, <<>>, FALSE, loc)

\* mutant: the force branch syncs last_update.txt too, as repair does
ForceSyncReadme_alsoSidecar(d, dl, loc, patchForSync, dateForSync) ==
  IF patchForSync # "" /\ dateForSync # ""
  THEN Result([d EXCEPT !.lu = writeLastUpdateFile(patchForSync, dateForSync),
                        !.readme = updateReadmeLastUpdate(d.readme, patchForSync, dateForSync)],
              dl.ev \o <<"writeLu", "writeReadme", "close">>, dl.saved, FALSE, loc)
  ELSE Result(d, dl.ev \o <<"close">>, dl.saved, FALSE, loc)

\* lines 396-409
ForceSyncReadme(d, dl, loc, patchForSync, dateForSync) ==
  IF patchForSync # "" /\ dateForSync # ""
  THEN Result([d EXCEPT !.readme = updateReadmeLastUpdate(d.readme, patchForSync, dateForSync)],
              dl.ev \o <<"writeReadme", "close">>, dl.saved, FALSE, loc)
  ELSE Result(d, dl.ev \o <<"close">>, dl.saved, FALSE, loc)

\* lines 389-395
ForceSync(d, s, dl, loc, mdRow) ==
  ForceSyncReadme(d, dl, loc, OrElse(RowPatch(mdRow), SitePatch(s)),
                  OrElse(RowDate(mdRow), SiteDate(s)))

\* lines 412-457: the row is inserted and both sidecars are written
InsertAndUpdate(d, s, dl, loc) ==
  Result([d EXCEPT !.md = InsertRow(MdContent(d), NewRow(s.dateStr, s.rawPatch, dl.saved)),
                   !.lu = writeLastUpdateFile(s.rawPatch, s.dateStr),
                   !.readme = updateReadmeLastUpdate(d.readme, s.rawPatch, s.dateStr)],
         dl.ev \o <<"writeMd", "writeLu", "writeReadme", "close">>, dl.saved, FALSE, loc)

\* lines 389-457, after the download loop; an exception of the loop leaves main()
AfterDownloads(d, force, s, dl, loc) ==
  IF dl.threw THEN Result(d, dl.ev \o <<"throw">>, dl.saved, TRUE, loc)
  ELSE IF force /\ (loc.is_same \/ loc.entry_exists)
  THEN ForceSync(d, s, dl, loc, parseFirstRowFromMd(MdContent(d)))
  ELSE IF ~loc.entry_exists THEN InsertAndUpdate(d, s, dl, loc)
  ELSE Result(d, dl.ev \o <<"close">>, dl.saved, FALSE, loc)

\* mutant: the skip branch is taken without looking at the force flag
UpdateDecide_noForceCheck(d, force, buttons, failAt, s, lastRecorded, loc) ==
  IF loc.entry_exists
  THEN IF loc.is_same THEN NoUpdate(d, lastRecorded, loc) ELSE MetadataResync(d, s, loc)
  ELSE IF buttons < NumGrids THEN Result(d, <<"close">>, <<>>, FALSE, loc)
  ELSE AfterDownloads(d, force, s, DownloadLoop(s.dateStr, s.patchStr, failAt),
                      [loc EXCEPT !.counted = TRUE])

\* lines 340-387
UpdateDecide(d, force, buttons, failAt, s, lastRecorded, loc) ==
  IF ~force /\ loc.entry_exists
  THEN IF loc.is_same THEN NoUpdate(d, lastRecorded, loc) ELSE MetadataResync(d, s, loc)
  ELSE IF buttons < NumGrids THEN Result(d, <<"close">>, <<>>, FALSE, loc)
  ELSE AfterDownloads(d, force, s, DownloadLoop(s.dateStr, s.patchStr, failAt),
                      [loc EXCEPT !.counted = TRUE])

\* lines 333-339
UpdateWith(d, force, buttons, failAt, s, lastRecorded) ==
  UpdateDecide(d, force, buttons, failAt, s, lastRecorded,
               [entry_exists |-> hasEntryInMd(MdContent(d), s.dateStr, s.rawPatch, s.patchStr),
                is_same |-> SameAs(lastRecorded, s),
                counted |-> FALSE])

\* lines 333-458
UpdateRun(d, force, pg, failAt) ==
  UpdateWith(d, force, pg.buttons, failAt, Scrape(pg), readLastUpdateFile(d.lu))

\* mutant: the force flag is looked at before the repair flag
Main_forceFirst(d, force, repair, pg, failAt) ==
  IF ~pg.panel THEN Result(d, <<"close">>, <<>>, FALSE, NoLocals)
  ELSE IF ~pg.container THEN Result(d, <<"close">>, <<>>, FALSE, NoLocals)
  ELSE IF force THEN UpdateRun(d, force, pg, failAt)
  ELSE IF repair THEN RepairRun(d, pg, failAt)
  ELSE UpdateRun(d, force, pg, failAt)

\* main(): lines 10-458
Main(d, force, repair, pg, failAt) ==
  IF ~pg.panel THEN Result(d, <<"close">>, <<>>, FALSE, NoLocals)
  ELSE IF ~pg.container THEN Result(d, <<"close">>, <<>>, FALSE, NoLocals)
  ELSE IF repair THEN RepairRun(d, pg, failAt)
  ELSE UpdateRun(d, force, pg, failAt)

----------------------------------------------------------------------------
(* playwright-script.ts: the standalone downloader.  It scrapes the date   *)
(* and the patch slug as the updater does and saves the three files; it    *)
(* reads and writes none of the bookkeeping files.  Its returns at lines   *)
(* 31, 65 and 76 are the event "return": the function ends there without   *)
(* a call of browser.close().                                              *)

\* lines 69-92
DownloaderSave(d, buttons, dl) ==
  IF buttons < NumGrids THEN Result(d, <<"return">>, <<>>, FALSE, NoLocals)
  ELSE IF dl.threw THEN Result(d, dl.ev \o <<"throw">>, dl.saved, TRUE, NoLocals)
  ELSE Result(d, dl.ev \o <<"close">>, dl.saved, FALSE, NoLocals)

\* lines 33-92
DownloaderWith(d, buttons, failAt, s) ==
  DownloaderSave(d, buttons, DownloadLoop(s.dateStr, s.patchStr, failAt))

\* main() of playwright-script.ts: lines 5-93
DownloaderMain(d, pg, failAt) ==
  IF ~pg.panel THEN Result(d, <<"return">>, <<>>, FALSE, NoLocals)
  ELSE IF ~pg.container THEN Result(d, <<"return">>, <<>>, FALSE, NoLocals)
  ELSE DownloaderWith(d, pg.buttons, failAt, Scrape(pg))

----------------------------------------------------------------------------
(* generate_hashes.ts: the hash generator.  A line "filename,digest" of    *)
(* grid_hashes.txt is the pair <<filename, digest>>; the text ends in a    *)
(* newline, so its last line is the blank line.                            *)

InOrder(file, order) == \E i \in 1..Len(order) : order[i] = file

\* the file names of this model that end in ".json"
JsonNames ==
  { FileName(Suggested[1], "2025-10-12", "p7_39d"),
    FileName(Suggested[2], "2025-10-12", "p7_39d"),
    FileName(Suggested[1], "2025-11-03", "p7_40") }

\* file.endsWith('.json')
IsJson(file) == file \in JsonNames

\* line 20-22: the .json files of fs.readdir(GRIDS_FOLDER)
jsonFiles(files) == {file \in files : IsJson(file)}

\* the digest is a function of the bytes read
calculateMD5(content) == "md5(" \o content \o ")"

\* the orders in which fs.readdir may list the files
Orders(files) ==
  {q \in [1..Cardinality(files) -> files] :
     \A i, j \in 1..Cardinality(files) : q[i] = q[j] => i = j}

EntryNames(file) == {file[i][1] : i \in {j \in 1..Len(file) : Len(file[j]) = 2}}

\* mutant: the entries of files that are gone are kept after the new ones
generate_hashes_merge(order, content, old) ==
  IF Len(order) = 0 THEN old
  ELSE [i \in 1..Len(order) |-> <<order[i], calculateMD5(content[order[i]])>>]
       \o SelectSeq(old, LAMBDA ln : Len(ln) = 2 /\ ~InOrder(ln[1], order))
       \o <<BlankLine>>

\* a variant whose digest is taken of the file name
generate_hashes_ofName(order, content, old) ==
  IF Len(order) = 0 THEN old
  ELSE [i \in 1..Len(order) |-> <<order[i], calculateMD5(order[i])>>]
       \o <<BlankLine>>

\* main() of generate_hashes.ts, lines 15-45: grid_hashes.txt after the run;
\* order: the .json files as readdir lists them
generate_hashes(order, content, old) ==
  IF Len(order) = 0 THEN old
  ELSE [i \in 1..Len(order) |-> <<order[i], calculateMD5(content[order[i]])>>]
       \o <<BlankLine>>

----------------------------------------------------------------------------
(* app/src/App.tsx: the desktop shell.  localStorage is a function from    *)
(* the keys that have an item to the item's text.  The name of a remote    *)
(* grid is the sequence of its tokens: the kind, "_", the date, "_p", the   *)
(* digits, "_", the rest of the patch and ".json".                         *)

NoItems == [key \in {} |-> ""]

\* the zoom levels of getZoomScale and of the two buttons
MinZoom == 1
MaxZoom == 5

\* detectedGrid === null
NoDetected == [name |-> "", is_known |-> FALSE]

\* lines 56, 59, 62-66 and 68: the useState defaults; "" is the null of
\* applyingGrid
Unmounted ==
  [autoSync |-> TRUE, startMinimized |-> FALSE, minimizeToTray |-> TRUE,
   zoomLevel |-> 3, showDebugInfo |-> FALSE, grids |-> <<>>,
   detectedGrid |-> NoDetected, applyingGrid |-> ""]

\* JSON.stringify of a boolean and of a number
StringifyBoolean(value) == IF value THEN "true" ELSE "false"
StringifyNumber(value) == ToString(value)

\* JSON.parse of the text of a boolean
ParseBoolean(text) == text = "true"

\* parseInt of the text of a zoom level
parseInt(text) == CHOOSE n \in 0..9 : ToString(n) = text

\* saveSetting, lines 71-79; json: JSON.stringify(value)
saveSetting(storage, key, json) ==
  [k \in DOMAIN storage \cup {key} |-> IF k = key THEN json ELSE storage[k]]

\* `stored ? ... : ...` at lines 323-327: getItem gave a non-empty text
Stored(storage, key) == key \in DOMAIN storage /\ storage[key] # ""

LoadBoolean(storage, key, default) ==
  IF Stored(storage, key) THEN ParseBoolean(storage[key]) ELSE default

LoadNumber(storage, key, default) ==
  IF Stored(storage, key) THEN parseInt(storage[key]) ELSE default

\* initializeSettings, lines 304-360: the component state after the loads
initializeSettings(storage, state) ==
  [state EXCEPT
     !.autoSync = LoadBoolean(storage, "autoSync", TRUE),
     !.startMinimized = LoadBoolean(storage, "startMinimized", FALSE),
     !.minimizeToTray = LoadBoolean(storage, "minimizeToTray", TRUE),
     !.zoomLevel = LoadNumber(storage, "zoomLevel", 3),
     !.showDebugInfo = LoadBoolean(storage, "showDebugInfo", FALSE)]

Digits == {"7", "8"}

Words == Digits \cup {"39d", "40"}

\* a file name as grid-updater.ts builds it at line 383
GridName(kind, date, digits, rest) ==
  <<kind, "_", date, "_p", digits, "_", rest, ".json">>

\* one element of list_remote_grids
RemoteGrid(kind, date, digits, rest) ==
  [name |-> GridName(kind, date, digits, rest), date |-> date]

\* a member of a group that no grid has filled
NoGrid == [name |-> <<>>, date |-> ""]

\* where /_p(\d+)_(\w+)\.json/ matches first; 0: no match
RECURSIVE PatchMatchFrom(_, _)
PatchMatchFrom(name, i) ==
  IF i + 4 > Len(name) THEN 0
  ELSE IF /\ name[i] = "_p"
          /\ name[i + 1] \in Digits
          /\ name[i + 2] = "_"
          /\ name[i + 3] \in Words
          /\ name[i + 4] = ".json"
       THEN i
       ELSE PatchMatchFrom(name, i + 1)

\* lines 395-396
PatchOf(name) ==
  IF PatchMatchFrom(name, 1) = 0 THEN "N/A"
  ELSE name[PatchMatchFrom(name, 1) + 1] \o "." \o name[PatchMatchFrom(name, 1) + 3]

\* name.includes(word)
Includes(name, word) == \E i \in 1..Len(name) : name[i] = word

\* acc[date], as an index into the groups; 0: no such key
RECURSIVE GroupIndex(_, _, _)
GroupIndex(acc, key, i) ==
  IF i > Len(acc) THEN 0
  ELSE IF acc[i].key = key THEN i
  ELSE GroupIndex(acc, key, i + 1)

\* lines 397-403
NewGroup(grid) ==
  [key |-> grid.date, date |-> grid.date, patch |-> PatchOf(grid.name),
   d2pt |-> NoGrid, highWinrate |-> NoGrid, mostPlayed |-> NoGrid]

WithGroup(acc, grid) ==
  IF GroupIndex(acc, grid.date, 1) = 0 THEN Append(acc, NewGroup(grid)) ELSE acc

\* lines 404-410
Assign(group, grid) ==
  IF Includes(grid.name, "d2pt_rating") THEN [group EXCEPT !.d2pt = grid]
  ELSE IF Includes(grid.name, "high_winrate") THEN [group EXCEPT !.highWinrate = grid]
  ELSE IF Includes(grid.name, "most_played") THEN [group EXCEPT !.mostPlayed = grid]
  ELSE group

\* the reducer of lines 393-412, on an accumulator that has the grid's key
Reducer(acc, grid) ==
  [acc EXCEPT ![GroupIndex(acc, grid.date, 1)] =
     Assign(acc[GroupIndex(acc, grid.date, 1)], grid)]

RECURSIVE Reduce(_, _)
Reduce(acc, remoteGrids) ==
  IF remoteGrids = <<>> THEN acc
  ELSE Reduce(Reducer(WithGroup(acc, Head(remoteGrids)), Head(remoteGrids)),
              Tail(remoteGrids))

\* the dates of the model in ascending order of localeCompare
DateOrder == <<"2025-10-12", "2025-11-03">>

\* line 415: sort((a, b) => b.date.localeCompare(a.date)); the keys of the
\* accumulator are the dates, so no two groups have the same date
RECURSIVE SortByDateDesc(_, _)
SortByDateDesc(groups, i) ==
  IF i = 0 THEN <<>>
  ELSE SelectSeq(groups, LAMBDA g : g.date = DateOrder[i])
       \o SortByDateDesc(groups, i - 1)

\* lines 392-416: the listing of the remote grids
GroupListing(remoteGrids) ==
  SortByDateDesc(Reduce(<<>>, remoteGrids), Len(DateOrder))

----------------------------------------------------------------------------
(* The state machine: runs of main(), one after the other *)

Updater == "grid-updater.ts"

Downloader == "playwright-script.ts"

D1 == <<2025, 10, 12>>
D2 == <<2025, 11, 3>>
P1 == <<"7", "39d">>
P2 == <<"7", "40">>

NoPanelPage ==
  [panel |-> FALSE, info |-> FALSE, date |-> InvalidDate, patch |-> P1,
   container |-> FALSE, buttons |-> 0]

Pages ==
  {NoPanelPage}
  \cup [panel : {TRUE}, info : {FALSE}, date : {InvalidDate}, patch : {P1},
        container : {FALSE}, buttons : {0}]
  \cup [panel : {TRUE}, info : {FALSE}, date : {InvalidDate}, patch : {P1},
        container : {TRUE}, buttons : 2..MaxButtons]
  \cup [panel : {TRUE}, info : {TRUE}, date : {D1, D2, InvalidDate}, patch : {P1, P2},
        container : {FALSE}, buttons : {0}]
  \cup [panel : {TRUE}, info : {TRUE}, date : {D1, D2, InvalidDate}, patch : {P1, P2},
        container : {TRUE}, buttons : 2..MaxButtons]

Disk == [md |-> md, lu |-> lu, readme |-> readme, grids |-> grids]

\* no file in ./grids
NoBytes == [f \in {} |-> ""]

\* what the site serves for a download
SiteBytes == "site"

\* the contents of ./grids after download.saveAs has written the saved files
Saved(files, saved) ==
  [f \in files |-> IF f \in saved THEN SiteBytes ELSE bytes[f]]

NoRun ==
  [prog |-> Updater, force |-> FALSE, repair |-> FALSE, pg |-> NoPanelPage, failAt |-> 0,
   loc |-> NoLocals, ev |-> <<>>, saved |-> <<>>, threw |-> FALSE]

Release(pg) == <<Scrape(pg).dateStr, Scrape(pg).rawPatch>>

InSeq(x, q) == \E i \in 1..Len(q) : q[i] = x

\* the run's effect on the files, its record, and the releases for which a
\* normal-mode run counted three buttons
Finish(force, repair, pg, failAt, r) ==
  /\ md' = r.md
  /\ lu' = r.lu
  /\ readme' = r.readme
  /\ grids' = r.grids
  /\ last' = [prog |-> Updater,
              force |-> force, repair |-> repair, pg |-> pg, failAt |-> failAt,
              loc |-> r.loc, ev |-> r.ev, saved |-> r.saved, threw |-> r.threw]
  /\ budget' = budget - 1
  /\ seen' = IF ~force /\ r.loc.counted /\ ~InSeq(Release(pg), seen)
             THEN Append(seen, Release(pg)) ELSE seen
  /\ bytes' = Saved(r.grids, FilesOf(r.saved))
  /\ hashes' = hashes
  /\ UNCHANGED <<localStorage, app>>

Run(force, repair, pg, failAt) ==
  /\ budget > 0
  /\ Finish(force, repair, pg, failAt, Main(Disk, force, repair, pg, failAt))

RunNormal == \E pg \in Pages : Run(FALSE, FALSE, pg, 0)

RunForce == \E pg \in Pages : Run(TRUE, FALSE, pg, 0)

RunRepair == \E pg \in Pages : Run(FALSE, TRUE, pg, 0)

RunRepairForce == \E pg \in Pages : Run(TRUE, TRUE, pg, 0)

Next == RunNormal \/ RunForce \/ RunRepair \/ RunRepairForce

DateStr1 == FormatDate(D1)
DateStr2 == FormatDate(D2)

OldRow(date, patch) == <<"", date, patch, "", "", "", "">>

InitLedgers ==
  { Absent,
    EmptyText,
    <<HeaderLine, SepLine, BlankLine>>,
    <<HeaderLine, SepLine, OldRow(DateStr1, "7.39d"), BlankLine>>,
    <<HeaderLine, SepLine, OldRow(DateStr2, "7.39d"), OldRow(DateStr1, "7.39d"), BlankLine>>,
    <<HeaderLine, SepLine, OldRow(DateStr1, "p7_39d"), BlankLine>>,
    <<HeaderLine, SepLine, BlankLine, OldRow(DateStr1, "7.39d"), BlankLine>>,
    <<HeaderLine, SepLine, <<"", DateStr1, "">>, BlankLine>>,
    << <<"notes">>, BlankLine >> }

InitSidecars ==
  { Absent,
    <<"7.39d", DateStr1, "">>,
    <<"p7_39d", DateStr1, "">>,
    <<"7.40", DateStr2, "">>,
    <<"7.39d">> }

InitReadmes ==
  { Absent,
    << <<"#", "Grid Updater">>, BlankLine, LastUpdateLine("7.39d", DateStr1), BlankLine >>,
    << <<"#", "Grid Updater">>, BlankLine, <<"Last update:", "by hand">>, BlankLine >>,
    << <<"#", "Grid Updater">>, BlankLine, <<"text">>, BlankLine >>,
    << <<"text">>, BlankLine >> }

\* any contents of the three bookkeeping files
Init ==
  /\ md \in InitLedgers
  /\ lu \in InitSidecars
  /\ readme \in InitReadmes
  /\ grids = {}
  /\ last = NoRun
  /\ budget = MaxRunsAny
  /\ seen = <<>>
  /\ bytes = NoBytes
  /\ hashes = Absent
  /\ localStorage = NoItems
  /\ app = Unmounted

Spec == Init /\ [][Next]_vars

\* an empty ledger, any sidecar and README, normal-mode runs only
InitEmptyLedger ==
  /\ md \in {Absent, EmptyText}
  /\ lu \in InitSidecars
  /\ readme \in InitReadmes
  /\ grids = {}
  /\ last = NoRun
  /\ budget = MaxRuns
  /\ seen = <<>>
  /\ bytes = NoBytes
  /\ hashes = Absent
  /\ localStorage = NoItems
  /\ app = Unmounted

NextNormal == RunNormal

SpecNormal == InitEmptyLedger /\ [][NextNormal]_vars

\* any contents of the three bookkeeping files, normal-mode runs in a row
InitRepeat ==
  /\ md \in InitLedgers
  /\ lu \in InitSidecars
  /\ readme \in InitReadmes
  /\ grids = {}
  /\ last = NoRun
  /\ budget = MaxRepeat
  /\ seen = <<>>
  /\ bytes = NoBytes
  /\ hashes = Absent
  /\ localStorage = NoItems
  /\ app = Unmounted

SpecRepeat == InitRepeat /\ [][NextNormal]_vars

\* a run of grid-updater.ts in which download failAt throws
RunThrowing ==
  \E force \in BOOLEAN, repair \in BOOLEAN, pg \in Pages, failAt \in 1..NumGrids :
    Run(force, repair, pg, failAt)

FinishDownloader(pg, failAt, r) ==
  /\ grids' = r.grids
  /\ last' = [prog |-> Downloader,
              force |-> FALSE, repair |-> FALSE, pg |-> pg, failAt |-> failAt,
              loc |-> r.loc, ev |-> r.ev, saved |-> r.saved, threw |-> r.threw]
  /\ budget' = budget - 1
  /\ bytes' = Saved(r.grids, FilesOf(r.saved))
  /\ UNCHANGED <<md, lu, readme, seen, hashes, localStorage, app>>

\* a run of playwright-script.ts
RunDownloader ==
  \E pg \in Pages, failAt \in 0..NumGrids :
    /\ budget > 0
    /\ FinishDownloader(pg, failAt, DownloaderMain(Disk, pg, failAt))

\* any contents of the three bookkeeping files; runs of either program, in
\* any mode, with downloads that may throw
InitFaults ==
  /\ md \in InitLedgers
  /\ lu \in InitSidecars
  /\ readme \in InitReadmes
  /\ grids = {}
  /\ last = NoRun
  /\ budget = MaxRunsFaults
  /\ seen = <<>>
  /\ bytes = NoBytes
  /\ hashes = Absent
  /\ localStorage = NoItems
  /\ app = Unmounted

NextFaults ==
  RunNormal \/ RunForce \/ RunRepair \/ RunRepairForce \/ RunThrowing \/ RunDownloader

SpecFaults == InitFaults /\ [][NextFaults]_vars

\* the pages of a history: two releases and the page without the 'Last
\* update' text, each with two or three buttons, and the page without panel
HistoryPages ==
  {NoPanelPage}
  \cup [panel : {TRUE}, info : {TRUE}, date : {D1, D2}, patch : {P1},
        container : {TRUE}, buttons : {NumGrids - 1, NumGrids}]
  \cup [panel : {TRUE}, info : {FALSE}, date : {InvalidDate}, patch : {P1},
        container : {TRUE}, buttons : {NumGrids - 1, NumGrids}]

\* a completed run of grid-updater.ts in any mode
RunAnyMode ==
  \E force \in BOOLEAN, repair \in BOOLEAN, pg \in HistoryPages :
    Run(force, repair, pg, 0)

\* none of grids.md, last_update.txt and README.md exists
InitAbsent ==
  /\ md = Absent
  /\ lu = Absent
  /\ readme = Absent
  /\ grids = {}
  /\ last = NoRun
  /\ budget = MaxRunsHistory
  /\ seen = <<>>
  /\ bytes = NoBytes
  /\ hashes = Absent
  /\ localStorage = NoItems
  /\ app = Unmounted

NextHistory == RunAnyMode

SpecHistory == InitAbsent /\ [][NextHistory]_vars

Title == <<"#", "Grid Updater">>

\* README.md before the calls: missing, empty, or with at most one place
\* where the 'Last update' pattern matches
ReadmeInputs ==
  { Absent,
    EmptyText,
    <<Title, BlankLine, LastUpdateLine("7.39d", DateStr1), BlankLine>>,
    <<Title, BlankLine, <<"Last update:", "by hand">>, BlankLine>>,
    <<Title, <<"text">>, <<"last update :", "by hand">>>>,
    <<Title, BlankLine, <<"text">>, BlankLine>>,
    << <<"text">>, BlankLine >>,
    << <<"text">>, <<"#", "Late Title">>, BlankLine >>,
    <<Title, BlankLine, CrLine, BlankLine>> }

CallPatches == {"7.39d", "7.40", "unknown_patch_raw"}

CallDates == {DateStr1, DateStr2, "unknown_date"}

CallUpdate ==
  \E patch \in CallPatches, date \in CallDates :
    /\ budget > 0
    /\ readme' = updateReadmeLastUpdate(readme, patch, date)
    /\ budget' = budget - 1
    /\ UNCHANGED <<md, lu, grids, last, seen, bytes, hashes, localStorage, app>>

CallEnsure ==
  \E patch \in CallPatches, date \in CallDates :
    /\ budget > 0
    /\ readme' = ensureReadmeHasLastUpdate(readme, patch, date)
    /\ budget' = budget - 1
    /\ UNCHANGED <<md, lu, grids, last, seen, bytes, hashes, localStorage, app>>

InitReadme ==
  /\ md = Absent
  /\ lu = Absent
  /\ readme \in ReadmeInputs
  /\ grids = {}
  /\ last = NoRun
  /\ budget = MaxCalls
  /\ seen = <<>>
  /\ bytes = NoBytes
  /\ hashes = Absent
  /\ localStorage = NoItems
  /\ app = Unmounted

NextReadme == CallUpdate \/ CallEnsure

\* the two README functions called in any order with any arguments
SpecReadme == InitReadme /\ [][NextReadme]_vars

\* the names of the files that come and go in ./grids
FolderNames == JsonNames \cup {"notes.txt"}

Contents == {SiteBytes, "edited"}

\* a file is saved into ./grids, new or over the file of that name
PutFile ==
  \E file \in FolderNames, content \in Contents :
    /\ budget > 0
    /\ grids' = grids \cup {file}
    /\ bytes' = [f \in grids \cup {file} |-> IF f = file THEN content ELSE bytes[f]]
    /\ budget' = budget - 1
    /\ UNCHANGED <<md, lu, readme, last, seen, hashes, localStorage, app>>

\* a file is deleted from ./grids
RemoveFile ==
  \E file \in grids :
    /\ budget > 0
    /\ grids' = grids \ {file}
    /\ bytes' = [f \in grids \ {file} |-> bytes[f]]
    /\ budget' = budget - 1
    /\ UNCHANGED <<md, lu, readme, last, seen, hashes, localStorage, app>>

RECURSIVE AppendNew(_, _)
AppendNew(q, lines) ==
  IF lines = <<>> THEN q
  ELSE IF Len(Head(lines)) = 2 /\ ~InSeq(Head(lines)[1], q)
  THEN AppendNew(Append(q, Head(lines)[1]), Tail(lines))
  ELSE AppendNew(q, Tail(lines))

\* a run of generate_hashes.ts
RunGenerateHashes ==
  \E order \in Orders(jsonFiles(grids)) :
    /\ budget > 0
    /\ hashes' = generate_hashes(order, bytes, hashes)
    /\ seen' = AppendNew(seen, generate_hashes(order, bytes, hashes))
    /\ budget' = budget - 1
    /\ UNCHANGED <<md, lu, readme, grids, last, bytes, localStorage, app>>

InitHashes ==
  /\ md = Absent
  /\ lu = Absent
  /\ readme = Absent
  /\ grids = {}
  /\ last = NoRun
  /\ budget = MaxHashSteps
  /\ seen = <<>>
  /\ bytes = NoBytes
  /\ hashes = Absent
  /\ localStorage = NoItems
  /\ app = Unmounted

NextHashes == PutFile \/ RemoveFile \/ RunGenerateHashes

\* ./grids changing and the hash generator running, in any order
SpecHashes == InitHashes /\ [][NextHashes]_vars

\* dates and patches as the scrape gives them (one word), and one with a
\* blank inside; a patch may begin with dashes
EntryDates == { <<"2025-10-12">>, <<"unknown_date">>, <<"Oct", Sp, "12">> }

EntryPatches == { <<"7.39d">>, <<"unknown_patch_raw">>, <<"--">> }

\* the saved files of a row: three, none, or the first only
EntryFiles ==
  { <<"d2pt_rating.json", "high_winrate.json", "most_played.json">>,
    <<"", "", "">>,
    <<"d2pt_rating.json", "", "">> }

Entries == [date : EntryDates, patch : EntryPatches, files : EntryFiles]

\* one more entry is rendered at the end of the table
RenderOneMore ==
  \E e \in Entries :
    /\ budget > 0
    /\ seen' = Append(seen, e)
    /\ md' = Serialize(Append(seen, e))
    /\ budget' = budget - 1
    /\ UNCHANGED <<lu, readme, grids, last, bytes, hashes, localStorage, app>>

InitCodec ==
  /\ md = Serialize(<<>>)
  /\ lu = Absent
  /\ readme = Absent
  /\ grids = {}
  /\ last = NoRun
  /\ budget = MaxEntries
  /\ seen = <<>>
  /\ bytes = NoBytes
  /\ hashes = Absent
  /\ localStorage = NoItems
  /\ app = Unmounted

NextCodec == RenderOneMore

\* lists of entries rendered as a table
SpecCodec == InitCodec /\ [][NextCodec]_vars

\* last_update.txt as a run may find it
SidecarTexts ==
  { Absent,
    Unreadable,
    << <<>> >>,
    << <<"7.39d">> >>,
    << <<"7.39d">>, <<>> >>,
    << <<"7.39d">>, <<Sp, Sp>>, <<"2025-10-12">> >>,
    << <<>>, <<"2025-10-12">>, <<>> >>,
    << <<Sp>>, <<"2025-10-12">>, <<>> >>,
    << <<"7.39d">>, <<"2025-10-12">> >>,
    << <<"7.39d">>, <<"2025-10-12">>, <<>> >>,
    << <<Sp, "7.39d", Sp, Sp>>, <<Sp, "2025-10-12">>, <<>> >>,
    << <<"Patch", Sp, "7.39d">>, <<"Oct", Sp, "12", Sp>>, <<"notes">>, <<>> >> }

\* the patches and dates the runs pass to writeLastUpdateFile
WrittenPatches ==
  { <<"7.39d">>, <<"7.40">>, <<"unknown_patch_raw">>, <<"--">>, <<"p7_39d">>,
    <<"7.39d", Sp, "beta">> }

WrittenDates ==
  { <<"2025-10-12">>, <<"2025-11-03">>, <<"unknown_date">>, <<"Oct", Sp, "12">>,
    <<"2025">> }

\* writeLastUpdateFile(patch, date)
WriteSidecar ==
  \E patch \in WrittenPatches, date \in WrittenDates :
    /\ budget > 0
    /\ lu' = writeLastUpdateText(patch, date)
    /\ seen' = <<patch, date>>
    /\ budget' = budget - 1
    /\ UNCHANGED <<md, readme, grids, last, bytes, hashes, localStorage, app>>

\* the file is edited, removed or made unreadable between runs
EditSidecar ==
  \E text \in SidecarTexts :
    /\ budget > 0
    /\ lu' = text
    /\ seen' = <<>>
    /\ budget' = budget - 1
    /\ UNCHANGED <<md, readme, grids, last, bytes, hashes, localStorage, app>>

InitSidecar ==
  /\ md = Absent
  /\ lu \in SidecarTexts
  /\ readme = Absent
  /\ grids = {}
  /\ last = NoRun
  /\ budget = MaxSidecarSteps
  /\ seen = <<>>
  /\ bytes = NoBytes
  /\ hashes = Absent
  /\ localStorage = NoItems
  /\ app = Unmounted

NextSidecar == WriteSidecar \/ EditSidecar

\* last_update.txt written by the code or edited by hand, then read
SpecSidecar == InitSidecar /\ [][NextSidecar]_vars

\* changes of a preference and launches of the desktop shell in a behaviour
MaxAppSteps == 3

\* the three files of a release
ReleaseGrids(date, digits, rest) ==
  <<RemoteGrid("d2pt_rating", date, digits, rest),
    RemoteGrid("high_winrate", date, digits, rest),
    RemoteGrid("most_played", date, digits, rest)>>

\* what list_remote_grids may return: the files of one, two or three
\* releases, two of them of the same day, and a file without a patch
RemoteLists ==
  { <<>>,
    ReleaseGrids("2025-10-12", "7", "39d"),
    ReleaseGrids("2025-11-03", "7", "40"),
    ReleaseGrids("2025-10-12", "7", "39d") \o ReleaseGrids("2025-11-03", "7", "40"),
    ReleaseGrids("2025-11-03", "7", "40") \o ReleaseGrids("2025-10-12", "7", "39d"),
    ReleaseGrids("2025-10-12", "7", "39d") \o ReleaseGrids("2025-10-12", "7", "40"),
    ReleaseGrids("2025-10-12", "7", "40") \o ReleaseGrids("2025-10-12", "7", "39d")
      \o ReleaseGrids("2025-11-03", "8", "40"),
    << [name |-> <<"most_played", "_", "2025-10-12", "_", "unknown_patch", ".json">>,
        date |-> "2025-10-12"] >> }

NoChanges == [changed |-> {}, value |-> Unmounted, remote |-> <<>>]

\* the user has chosen a value for the preference
Chosen(key, value) ==
  [seen EXCEPT !.changed = @ \cup {key}, !.value = [@ EXCEPT ![key] = value]]

AppFrame == UNCHANGED <<md, lu, readme, grids, last, bytes, hashes>>

\* line 590: <Switch checked={autoSync} onChange={setAutoSync} />
ChangeAutoSync ==
  \E checked \in BOOLEAN :
    /\ budget > 0
    /\ app' = [app EXCEPT !.autoSync = checked]
    /\ localStorage' = localStorage
    /\ seen' = Chosen("autoSync", checked)
    /\ budget' = budget - 1
    /\ AppFrame

\* lines 601-610
ChangeStartMinimized ==
  \E checked \in BOOLEAN :
    /\ budget > 0
    /\ app' = [app EXCEPT !.startMinimized = checked]
    /\ localStorage' = saveSetting(localStorage, "startMinimized", StringifyBoolean(checked))
    /\ seen' = Chosen("startMinimized", checked)
    /\ budget' = budget - 1
    /\ AppFrame

\* lines 622-631
ChangeMinimizeToTray ==
  \E checked \in BOOLEAN :
    /\ budget > 0
    /\ app' = [app EXCEPT !.minimizeToTray = checked]
    /\ localStorage' = saveSetting(localStorage, "minimizeToTray", StringifyBoolean(checked))
    /\ seen' = Chosen("minimizeToTray", checked)
    /\ budget' = budget - 1
    /\ AppFrame

\* lines 659-662
ChangeShowDebugInfo ==
  \E checked \in BOOLEAN :
    /\ budget > 0
    /\ app' = [app EXCEPT !.showDebugInfo = checked]
    /\ localStorage' = saveSetting(localStorage, "showDebugInfo", StringifyBoolean(checked))
    /\ seen' = Chosen("showDebugInfo", checked)
    /\ budget' = budget - 1
    /\ AppFrame

Min(a, b) == IF a < b THEN a ELSE b
Max(a, b) == IF a > b THEN a ELSE b

ZoomTo(newLevel) ==
  /\ app' = [app EXCEPT !.zoomLevel = newLevel]
  /\ localStorage' = saveSetting(localStorage, "zoomLevel", StringifyNumber(newLevel))
  /\ seen' = Chosen("zoomLevel", newLevel)
  /\ budget' = budget - 1
  /\ AppFrame

\* the '+' button, disabled at the largest level
handleZoomIn ==
  /\ budget > 0
  /\ app.zoomLevel < MaxZoom
  /\ ZoomTo(Min(app.zoomLevel + 1, MaxZoom))

\* the '-' button, disabled at the smallest level
handleZoomOut ==
  /\ budget > 0
  /\ app.zoomLevel > MinZoom
  /\ ZoomTo(Max(app.zoomLevel - 1, MinZoom))

\* the application is closed and started again: the component mounts with
\* its defaults and the two effects run
Launch ==
  \E remoteGrids \in RemoteLists :
    /\ budget > 0
    /\ app' = [initializeSettings(localStorage, Unmounted)
                 EXCEPT !.grids = GroupListing(remoteGrids)]
    /\ localStorage' = localStorage
    /\ seen' = [seen EXCEPT !.remote = remoteGrids]
    /\ budget' = budget - 1
    /\ AppFrame

InitApp ==
  /\ md = Absent
  /\ lu = Absent
  /\ readme = Absent
  /\ grids = {}
  /\ last = NoRun
  /\ budget = MaxAppSteps
  /\ seen = NoChanges
  /\ bytes = NoBytes
  /\ hashes = Absent
  /\ localStorage = NoItems
  /\ app = Unmounted

NextApp ==
  \/ ChangeAutoSync
  \/ ChangeStartMinimized
  \/ ChangeMinimizeToTray
  \/ ChangeShowDebugInfo
  \/ handleZoomIn
  \/ handleZoomOut
  \/ Launch

\* the desktop shell used and restarted
SpecApp == InitApp /\ [][NextApp]_vars

\* force-mode runs in a behaviour that starts from arbitrary files
MaxRunsForce == 1

\* ledgers edited by hand: a first row with a date or a patch only, above
\* the row of a release
HalfRowLedgers ==
  { <<HeaderLine, SepLine, <<"", DateStr2, "">>, OldRow(DateStr1, "7.39d"), BlankLine>>,
    <<HeaderLine, SepLine, <<"", "", "7.40", "">>, OldRow(DateStr1, "7.39d"), BlankLine>> }

InitForce ==
  /\ md \in InitLedgers \cup HalfRowLedgers
  /\ lu \in InitSidecars
  /\ readme \in InitReadmes
  /\ grids = {}
  /\ last = NoRun
  /\ budget = MaxRunsForce
  /\ seen = <<>>
  /\ bytes = NoBytes
  /\ hashes = Absent
  /\ localStorage = NoItems
  /\ app = Unmounted

NextForce == RunForce

\* any contents of the three bookkeeping files, then force-mode runs
SpecForce == InitForce /\ [][NextForce]_vars

\* runs in a behaviour whose downloads may throw, on the pages of a history
MaxRunsThrows == 2

\* a run of grid-updater.ts in any mode in which download failAt throws
RunAnyModeThrowing ==
  \E force \in BOOLEAN, repair \in BOOLEAN, pg \in HistoryPages, failAt \in 1..NumGrids :
    Run(force, repair, pg, failAt)

InitThrows ==
  /\ md \in InitLedgers
  /\ lu = Absent
  /\ readme = Absent
  /\ grids = {}
  /\ last = NoRun
  /\ budget = MaxRunsThrows
  /\ seen = <<>>
  /\ bytes = NoBytes
  /\ hashes = Absent
  /\ localStorage = NoItems
  /\ app = Unmounted

NextThrows == RunAnyMode \/ RunAnyModeThrowing

\* any ledger, no sidecar and no README; runs in any mode whose downloads
\* may throw
SpecThrows == InitThrows /\ [][NextThrows]_vars

\* calls of the ledger functions on a text in a behaviour
MaxTextSteps == 2

\* the rows of two releases, the second with its patch as a slug
TextEntries ==
  { [date |-> <<"2025-10-12">>, patch |-> <<"7.39d">>,
     files |-> <<"d2pt_rating.json", "high_winrate.json", "most_played.json">>],
    [date |-> <<"2025-11-03">>, patch |-> <<"p7_40">>, files |-> <<"", "", "">>] }

RowOne == RenderRow([date |-> <<"2025-10-12">>, patch |-> <<"7.39d">>,
                     files |-> <<"d2pt_rating.json", "", "">>])

\* grids.md as a run may find it: empty, without separator, written by the
\* program, and edited by hand
LedgerTexts ==
  { NoText,
    << <<"notes">>, <<>> >>,
    Serialize(<<>>),
    <<HeaderText, SepText, RowOne, <<>>>>,
    <<HeaderText, SepText, <<>>, RowOne, <<>>>>,
    <<HeaderText, SepText, <<Bar>>, <<Bar, Sp, "2025-10-12">>, RowOne, <<>>>>,
    <<HeaderText, SepText, <<Bar, Sp, "2025-10-12", Sp, Bar>>, RowOne, <<>>>>,
    <<HeaderText, SepText, <<Bar, Sp, "--", Sp, Bar, Sp, "7.39d", Sp, Bar>>, <<>>>>,
    <<HeaderText, SepText,
      <<Sp, Sp, Bar, "2025-11-03", Bar, Sp, Sp, "p7_40", Sp, Bar, Sp>>, RowOne>>,
    <<HeaderText, SepText, <<"2025-10-12", Sp, Bar, Sp, "7.39d", Sp, Bar, Sp, "x">>, <<>>>>,
    << <<"--", Sp, "notes">>, HeaderText, SepText, RowOne, <<>> >>,
    <<HeaderText, SepText>> }

QueryDates == { <<"2025-10-12">>, <<"2025-11-03">>, <<"--">>, <<"7.39d">> }

QueryPatches == { <<"7.39d">>, <<"7.40">>, <<"x">> }

\* the slug of the patch, or <<>> when the caller gives no second patch
QuerySlugs == { <<>>, <<"p7_39d">>, <<"p7_40">> }

NoCall ==
  [op |-> "none", date |-> <<>>, patchA |-> <<>>, patchB |-> <<>>,
   found |-> FALSE, row |-> NullRow, before |-> <<>>]

TextFrame ==
  UNCHANGED <<lu, readme, grids, last, bytes, hashes, localStorage, app>>

\* hasEntryInMd(mdContent, date, patchA, patchB)
CallHasEntry ==
  \E date \in QueryDates, patchA \in QueryPatches, patchB \in QuerySlugs :
    /\ budget > 0
    /\ seen' = [NoCall EXCEPT !.op = "hasEntryInMd", !.date = date,
                              !.patchA = patchA, !.patchB = patchB,
                              !.found = hasEntryInText(md, date, patchA, patchB)]
    /\ md' = md
    /\ budget' = budget - 1
    /\ TextFrame

\* parseFirstRowFromMd(mdContent)
CallParseFirstRow ==
  /\ budget > 0
  /\ seen' = [NoCall EXCEPT !.op = "parseFirstRowFromMd",
                            !.row = parseFirstRowFromText(md)]
  /\ md' = md
  /\ budget' = budget - 1
  /\ TextFrame

\* lines 415-442: the row of the entry is rendered and inserted
CallInsert ==
  \E e \in TextEntries :
    /\ budget > 0
    /\ md' = InsertText(md, RenderRow(e))
    /\ seen' = [NoCall EXCEPT !.op = "insert", !.date = e.date, !.patchA = e.patch,
                              !.before = md]
    /\ budget' = budget - 1
    /\ TextFrame

InitText ==
  /\ md \in LedgerTexts
  /\ lu = Absent
  /\ readme = Absent
  /\ grids = {}
  /\ last = NoRun
  /\ budget = MaxTextSteps
  /\ seen = NoCall
  /\ bytes = NoBytes
  /\ hashes = Absent
  /\ localStorage = NoItems
  /\ app = Unmounted

NextText == CallHasEntry \/ CallParseFirstRow \/ CallInsert

\* the ledger functions called on the text of grids.md
SpecText == InitText /\ [][NextText]_vars

\* two runs of grid-updater.ts in normal mode at the same time.  A run
\* reads grids.md and last_update.txt once (lines 86-92, 333), awaits the
\* three downloads, and then writes; the other run may take its steps in
\* between.  seen[p] is the position of run p and what it holds in memory.
MaxOverlapSteps == 4

Procs == {1, 2}

\* pages with the panel and the container: one of two releases, with two or
\* three buttons
OverlapPages ==
  [panel : {TRUE}, info : {TRUE}, date : {D1, D2}, patch : {P1},
   container : {TRUE}, buttons : {NumGrids - 1, NumGrids}]

NotStarted ==
  [pc |-> "start", pg |-> NoPanelPage, mdContent |-> EmptyText, loc |-> NoLocals,
   readAt |-> 0, wroteAt |-> 0]

\* the number of the step being taken, from 1
Clock == MaxOverlapSteps - budget + 1

\* a variant that reads grids.md again before it inserts
LedgerAtWrite_reread(mdContent, current) == current

\* lines 419-442 work on mdContent, the text read at lines 86-92; the file
\* as it is at the time of the write is not looked at
LedgerAtWrite(mdContent, current) == mdContent

\* lines 10-371 of run p: scrape, read, decide.  A run that finds the entry
\* or fewer than three buttons ends here; otherwise the downloads begin
StartRun(p) ==
  \E pg \in OverlapPages :
    /\ budget > 0
    /\ seen[p].pc = "start"
    /\ IF UpdateRun(Disk, FALSE, pg, 0).loc.counted
       THEN /\ seen' = [seen EXCEPT ![p] =
                          [pc |-> "downloading", pg |-> pg, mdContent |-> MdContent(Disk),
                           loc |-> UpdateRun(Disk, FALSE, pg, 0).loc,
                           readAt |-> Clock, wroteAt |-> 0]]
            /\ UNCHANGED <<md, lu, readme, grids, bytes>>
       ELSE /\ seen' = [seen EXCEPT ![p] =
                          [pc |-> "done", pg |-> pg, mdContent |-> MdContent(Disk),
                           loc |-> UpdateRun(Disk, FALSE, pg, 0).loc,
                           readAt |-> Clock, wroteAt |-> 0]]
            /\ md' = UpdateRun(Disk, FALSE, pg, 0).md
            /\ lu' = UpdateRun(Disk, FALSE, pg, 0).lu
            /\ readme' = UpdateRun(Disk, FALSE, pg, 0).readme
            /\ UNCHANGED <<grids, bytes>>
    /\ budget' = budget - 1
    /\ UNCHANGED <<last, hashes, localStorage, app>>

\* what lines 373-457 of run p leave on the disk
WriteBack(p) ==
  InsertAndUpdate([md |-> LedgerAtWrite(seen[p].mdContent, MdContent(Disk)),
                   lu |-> lu, readme |-> readme, grids |-> grids],
                  Scrape(seen[p].pg),
                  DownloadLoop(Scrape(seen[p].pg).dateStr, Scrape(seen[p].pg).patchStr, 0),
                  seen[p].loc)

\* lines 373-457 of run p: the downloads, the insert and the sidecars
FinishRun(p) ==
  /\ budget > 0
  /\ seen[p].pc = "downloading"
  /\ md' = WriteBack(p).md
  /\ lu' = WriteBack(p).lu
  /\ readme' = WriteBack(p).readme
  /\ grids' = WriteBack(p).grids
  /\ bytes' = Saved(WriteBack(p).grids, FilesOf(WriteBack(p).saved))
  /\ seen' = [seen EXCEPT ![p].pc = "done", ![p].wroteAt = Clock]
  /\ budget' = budget - 1
  /\ UNCHANGED <<last, hashes, localStorage, app>>

InitOverlap ==
  /\ md \in InitLedgers
  /\ lu = Absent
  /\ readme = Absent
  /\ grids = {}
  /\ last = NoRun
  /\ budget = MaxOverlapSteps
  /\ seen = [p \in Procs |-> NotStarted]
  /\ bytes = NoBytes
  /\ hashes = Absent
  /\ localStorage = NoItems
  /\ app = Unmounted

NextOverlap == \E p \in Procs : StartRun(p) \/ FinishRun(p)

\* two normal-mode runs whose steps interleave in any way
SpecOverlap == InitOverlap /\ [][NextOverlap]_vars

\* the Apply buttons of the desktop shell.  seen.calls holds the calls of
\* handleApplyGrid that have not returned, each with the await it is at;
\* the other fields of seen count what the clicks did.
MaxApplySteps == 6

\* two rows of the table: the name and the download_url of a grid
ApplyGrids ==
  { [name |-> "d2pt_rating_2025-10-12_p7_39d.json", download_url |-> "raw/d2pt_rating"],
    [name |-> "most_played_2025-10-12_p7_39d.json", download_url |-> "raw/most_played"] }

NoClicks ==
  [calls |-> <<>>, started |-> 0, ignored |-> 0, succeeded |-> 0, failed |-> 0,
   click |-> "none", before |-> <<Unmounted, <<>>>>]

\* a variant without the test of line 82
Applying_never(applyingGrid) == FALSE

\* line 82: if (applyingGrid)
Applying(applyingGrid) == applyingGrid # ""

\* a sequence without its element i
Without(q, i) == SubSeq(q, 1, i - 1) \o SubSeq(q, i + 1, Len(q))

ApplyFrame == UNCHANGED <<md, lu, readme, grids, last, bytes, hashes, localStorage>>

\* lines 168-171 and 81-87: a click on an Apply button that is not disabled;
\* the handler runs up to its first await
ClickApply ==
  \E grid \in ApplyGrids :
    /\ budget > 0
    /\ app.applyingGrid # grid.download_url
    /\ IF Applying(app.applyingGrid)
       THEN /\ app' = app
            /\ seen' = [seen EXCEPT !.ignored = @ + 1, !.click = "ignored",
                                    !.before = <<app, seen.calls>>]
       ELSE /\ app' = [app EXCEPT !.applyingGrid = grid.download_url]
            /\ seen' = [seen EXCEPT
                          !.calls = Append(@, [grid |-> grid, at |-> "activate_grid"]),
                          !.started = @ + 1, !.click = "started",
                          !.before = <<app, seen.calls>>]
    /\ budget' = budget - 1
    /\ ApplyFrame

\* lines 86-98: activate_grid resolves, the success notification is shown
\* and the refresh of the detected grid begins
ActivateResolves ==
  \E i \in 1..Len(seen.calls) :
    /\ budget > 0
    /\ seen.calls[i].at = "activate_grid"
    /\ seen' = [seen EXCEPT !.calls[i].at = "refresh", !.click = "none"]
    /\ app' = app
    /\ budget' = budget - 1
    /\ ApplyFrame

\* lines 109-117: activate_grid rejects; catch, then finally
ActivateRejects ==
  \E i \in 1..Len(seen.calls) :
    /\ budget > 0
    /\ seen.calls[i].at = "activate_grid"
    /\ seen' = [seen EXCEPT !.calls = Without(@, i), !.failed = @ + 1, !.click = "none"]
    /\ app' = [app EXCEPT !.applyingGrid = ""]
    /\ budget' = budget - 1
    /\ ApplyFrame

\* what the three calls of lines 98-107 may give: nothing to show, the grid
\* matched by its hash, or a grid with an unknown hash
Detections(grid) ==
  { [name |-> grid.name, is_known |-> TRUE], [name |-> "custom", is_known |-> FALSE] }

\* lines 98-108 and 116: the refresh is through; finally
RefreshResolves ==
  \E i \in 1..Len(seen.calls) :
    /\ budget > 0
    /\ seen.calls[i].at = "refresh"
    /\ \E detected \in Detections(seen.calls[i].grid) \cup {app.detectedGrid} :
         app' = [app EXCEPT !.detectedGrid = detected, !.applyingGrid = ""]
    /\ seen' = [seen EXCEPT !.calls = Without(@, i), !.succeeded = @ + 1, !.click = "none"]
    /\ budget' = budget - 1
    /\ ApplyFrame

\* lines 98-117: a call of the refresh rejects; catch, then finally
RefreshRejects ==
  \E i \in 1..Len(seen.calls) :
    /\ budget > 0
    /\ seen.calls[i].at = "refresh"
    /\ seen' = [seen EXCEPT !.calls = Without(@, i), !.failed = @ + 1, !.click = "none"]
    /\ app' = [app EXCEPT !.applyingGrid = ""]
    /\ budget' = budget - 1
    /\ ApplyFrame

InitApply ==
  /\ md = Absent
  /\ lu = Absent
  /\ readme = Absent
  /\ grids = {}
  /\ last = NoRun
  /\ budget = MaxApplySteps
  /\ seen = NoClicks
  /\ bytes = NoBytes
  /\ hashes = Absent
  /\ localStorage = NoItems
  /\ app = Unmounted

NextApply ==
  \/ ClickApply
  \/ ActivateResolves
  \/ ActivateRejects
  \/ RefreshResolves
  \/ RefreshRejects

\* clicks on the Apply buttons and the answers of the backend, in any order
SpecApply == InitApply /\ [][NextApply]_vars

----------------------------------------------------------------------------
(* Vocabulary of the properties *)

\* this step is a run of main()
RunStep == budget' = budget - 1

Normal(l) == ~l.force /\ ~l.repair

\* the page let the run reach the mode branches
Reached(l) == l.pg.panel /\ l.pg.container

ThreeButtons(l) == Reached(l) /\ l.pg.buttons >= NumGrids

Clicks == {"click1", "click2", "click3"}

Writes == {"writeMd", "writeLu", "writeReadme"}

NoDownload(l) == l.saved = <<>> /\ \A i \in 1..Len(l.ev) : l.ev[i] \notin Clicks

NoWrite(l) == \A i \in 1..Len(l.ev) : l.ev[i] \notin Writes

Wrote(l, w) == InSeq(w, l.ev)

RECURSIVE PairsOf(_)
PairsOf(rows) ==
  IF rows = <<>> THEN <<>>
  ELSE <<<<Head(rows)[2], Head(rows)[3]>>>> \o PairsOf(Tail(rows))

\* the <<date, patch>> of the data rows below the separator, top to bottom
DataRowPairs(file) ==
  IF file = Absent \/ SepIndex(file) = 0 THEN <<>>
  ELSE PairsOf(SelectSeq(SubSeq(file, SepIndex(file) + 1, Len(file)), IsDataRow))

NoDuplicates(q) == \A i, j \in 1..Len(q) : q[i] = q[j] => i = j

Elements(q) == {q[i] : i \in 1..Len(q)}

Reverse(q) == [i \in 1..Len(q) |-> q[Len(q) + 1 - i]]

\* the 'Last update' lines of a README, top to bottom
LastUpdateLines(file) == SelectSeq(file, IsLastUpdateLine)

EmptyOrNoSeparator(file) == file = Absent \/ file = EmptyText \/ SepIndex(file) = 0

----------------------------------------------------------------------------
(* C1 .. C10 *)

\* C1: idempotency of normal mode.  After a completed normal-mode run, the
\* next normal-mode run on the same page clicks no download button, saves
\* no file and writes none of grids.md, last_update.txt and README.md.
C1_Idempotent ==
  [][ ( /\ RunStep
        /\ last.ev # <<>> /\ Normal(last) /\ ~last.threw
        /\ Normal(last') /\ last'.pg = last.pg )
      => ( /\ NoDownload(last') /\ NoWrite(last')
           /\ md' = md /\ lu' = lu /\ readme' = readme /\ grids' = grids ) ]_vars

\* the second of two normal-mode runs found the row the first one inserted
C1_Witness ==
  /\ budget = MaxRepeat - 2
  /\ Normal(last) /\ ThreeButtons(last)
  /\ last.loc.entry_exists /\ last.loc.is_same
  /\ seen = <<Release(last.pg)>>
  /\ last.ev = <<"close">>

\* C2: ledger uniqueness.  From an empty ledger, after normal-mode runs the
\* data rows of grids.md are exactly the releases for which a run counted
\* three buttons, each once.
C2_Unique ==
  /\ NoDuplicates(DataRowPairs(md))
  /\ Elements(DataRowPairs(md)) = Elements(seen)
  /\ Len(DataRowPairs(md)) = Len(seen)

\* three runs, two releases: the third run observed a release again
C2_Witness ==
  /\ budget = 0
  /\ Len(seen) = 2
  /\ last.loc.entry_exists
  /\ InSeq(Release(last.pg), seen)

\* C3: newest first.  From an empty ledger, the data rows of grids.md read
\* top to bottom are the inserted releases in reverse order of insertion.
C3_NewestFirst == DataRowPairs(md) = Reverse(seen)

C3_Witness ==
  /\ Len(seen) = 3
  /\ DataRowPairs(md) = <<seen[3], seen[2], seen[1]>>
  /\ seen[1] # seen[3]

NonBlank(ln) == ln # BlankLine

OtherLine(ln) == ~IsLastUpdateLine(ln) /\ NonBlank(ln)

\* C4: the new-release path of normal mode.  A normal-mode run that finds
\* three buttons and no entry for the scraped release saves three files,
\* puts one row for the release on top of the rows, writes last_update.txt
\* as (rawPatch, date) and makes the README line name the date and patch;
\* from an empty ledger and the page of 2025-10-12, patch 7.39d, the ledger
\* becomes header, separator and the one row.
C4_NewRelease ==
  [][ ( /\ RunStep
        /\ Normal(last') /\ ThreeButtons(last') /\ ~last'.loc.entry_exists )
      => ( /\ Len(last'.saved) = 3
           /\ Cardinality(FilesOf(last'.saved)) = 3
           /\ FilesOf(last'.saved) \subseteq grids'
           /\ Wrote(last', "writeMd")
           /\ DataRowPairs(md') = <<Release(last'.pg)>> \o DataRowPairs(md)
           /\ lu' = <<Scrape(last'.pg).rawPatch, Scrape(last'.pg).dateStr, "">>
           /\ LastUpdateLines(readme') # <<>>
           /\ Head(LastUpdateLines(readme')) =
                LastUpdateLine(Scrape(last'.pg).rawPatch, Scrape(last'.pg).dateStr)
           /\ ( ( /\ md \in {Absent, EmptyText}
                  /\ last'.pg.info /\ last'.pg.date = D1 /\ last'.pg.patch = P1 )
                => ( /\ Len(md') = 4
                     /\ md' = <<HeaderLine, SepLine, md'[3], BlankLine>>
                     /\ md'[3] = <<"", "2025-10-12", "7.39d",
                                   "[Download](grids/d2pt_rating_2025-10-12_p7_39d.json)",
                                   "[Download](grids/high_winrate_2025-10-12_p7_39d.json)",
                                   "[Download](grids/most_played_2025-10-12_p7_39d.json)",
                                   "">>
                     /\ lu' = <<"7.39d", "2025-10-12", "">>
                     /\ InSeq(<<"**Last update**:", "2025-10-12", "7.39d", "see grids.md">>,
                              readme') ) ) ) ]_vars

\* the spec's example after the run: a one-row table for 2025-10-12, 7.39d
C4_Witness ==
  /\ Normal(last) /\ ThreeButtons(last) /\ ~last.loc.entry_exists
  /\ last.pg.info /\ last.pg.date = D1 /\ last.pg.patch = P1
  /\ Len(last.saved) = 3
  /\ Len(md) = 4 /\ DataRowPairs(md) = << <<"2025-10-12", "7.39d">> >>
  /\ lu = <<"7.39d", "2025-10-12", "">>

\* C5: the no-op branch of normal mode.  With an entry for the scraped
\* release and a matching last_update.txt, the run downloads nothing and
\* leaves grids.md and last_update.txt alone; a README that has a 'Last
\* update' line is left alone whatever the line says, and a README without
\* one (or no README) gets exactly one, the other lines of the file kept.
C5_NoOp ==
  [][ ( /\ RunStep
        /\ Normal(last') /\ Reached(last')
        /\ last'.loc.entry_exists /\ last'.loc.is_same )
      => ( /\ NoDownload(last') /\ grids' = grids
           /\ md' = md /\ lu' = lu
           /\ ~Wrote(last', "writeMd") /\ ~Wrote(last', "writeLu")
           /\ ( LastUpdateLines(readme) # <<>>
                => (readme' = readme /\ NoWrite(last')) )
           /\ ( LastUpdateLines(readme) = <<>>
                => ( /\ Wrote(last', "writeReadme")
                     /\ Len(LastUpdateLines(readme')) = 1
                     /\ readme # Absent
                          => SelectSeq(readme', OtherLine) = SelectSeq(readme, NonBlank) ) ) ) ]_vars

\* a no-op run that left a hand-written 'Last update' line as it was
C5_Witness ==
  /\ Normal(last) /\ Reached(last)
  /\ last.loc.entry_exists /\ last.loc.is_same
  /\ last.ev = <<"close">>
  /\ InSeq(<<"Last update:", "by hand">>, readme)

\* C6: stale-sidecar recovery.  With an entry for the scraped release and a
\* last_update.txt that is missing, malformed or names another release, a
\* normal-mode run downloads nothing, leaves grids.md alone, and ends with
\* last_update.txt equal to (rawPatch, date) of the scrape and the README
\* line naming them.
C6_Resync ==
  [][ ( /\ RunStep
        /\ Normal(last') /\ Reached(last')
        /\ last'.loc.entry_exists /\ ~last'.loc.is_same )
      => ( /\ NoDownload(last') /\ grids' = grids
           /\ md' = md /\ ~Wrote(last', "writeMd")
           /\ lu' = <<Scrape(last'.pg).rawPatch, Scrape(last'.pg).dateStr, "">>
           /\ LastUpdateLines(readme') # <<>>
           /\ Head(LastUpdateLines(readme')) =
                LastUpdateLine(Scrape(last'.pg).rawPatch, Scrape(last'.pg).dateStr) ) ]_vars

C6_Witness ==
  /\ Normal(last) /\ Reached(last)
  /\ last.loc.entry_exists /\ ~last.loc.is_same
  /\ last.ev = <<"writeLu", "writeReadme", "close">>
  /\ lu = <<Scrape(last.pg).rawPatch, Scrape(last.pg).dateStr, "">>

\* C7: force mode always downloads.  A run with the force flag and without
\* the repair flag that finds the panel, the container and at least three
\* buttons clicks three buttons and saves three files, whatever
\* entry_exists and is_same are.
C7_ForceDownloads ==
  ( last.force /\ ~last.repair /\ ThreeButtons(last) )
  => ( /\ Len(last.saved) = NumGrids
       /\ Cardinality(FilesOf(last.saved)) = NumGrids
       /\ FilesOf(last.saved) \subseteq grids
       /\ \A c \in Clicks : Wrote(last, c) )

\* a force run that downloaded although the entry and the sidecar matched
C7_Witness ==
  /\ last.force /\ ~last.repair /\ ThreeButtons(last)
  /\ last.loc.entry_exists /\ last.loc.is_same
  /\ Len(last.saved) = NumGrids

\* C8: force does not duplicate.  A force-mode run for a release that has an
\* entry leaves grids.md and last_update.txt as they were and writes neither.
C8_ForceNoDuplicate ==
  [][ ( /\ RunStep
        /\ last'.force /\ ~last'.repair /\ Reached(last')
        /\ last'.loc.entry_exists )
      => ( /\ md' = md /\ lu' = lu
           /\ ~Wrote(last', "writeMd") /\ ~Wrote(last', "writeLu") ) ]_vars

C8_Witness ==
  /\ last.force /\ ~last.repair /\ ThreeButtons(last)
  /\ last.loc.entry_exists
  /\ Len(last.saved) = NumGrids
  /\ Wrote(last, "writeReadme")
  /\ Len(DataRowPairs(md)) = 1

OneRowTable(file, pair) ==
  /\ Len(file) = 4
  /\ file = <<HeaderLine, SepLine, file[3], BlankLine>>
  /\ DataRowPairs(file) = <<pair>>

UsableScrape(pg) == SiteDate(Scrape(pg)) # "" /\ SitePatch(Scrape(pg)) # ""

C10_RepairNeverDownloads == last.repair => NoDownload(last)

----------------------------------------------------------------------------
(* C11 .. C20 *)

\* the first row of grids.md as the repair branch reads it
FirstRow == parseFirstRowFromMd(MdContent(Disk))

FullRow(row) == row # NullRow /\ row[1] # "" /\ row[2] # ""

\* C11: repair writes both sidecars, the ledger first.  A repair-mode run
\* that reaches the repair branch with a first row giving date d and patch p
\* ends with last_update.txt equal to (p, d) and the README line naming d
\* and p, whatever the page and the old sidecars say; with no first row and
\* a usable scrape, both are written from the scraped date and raw patch.
C11_RepairPrecedence ==
  [][ ( RunStep /\ last'.repair /\ Reached(last') )
      => ( /\ FullRow(FirstRow)
                => ( /\ lu' = <<FirstRow[2], FirstRow[1], "">>
                     /\ Wrote(last', "writeLu") /\ Wrote(last', "writeReadme")
                     /\ LastUpdateLines(readme') # <<>>
                     /\ Head(LastUpdateLines(readme')) =
                          LastUpdateLine(FirstRow[2], FirstRow[1]) )
           /\ ( FirstRow = NullRow /\ UsableScrape(last'.pg) )
                => ( /\ lu' = <<Scrape(last'.pg).rawPatch, Scrape(last'.pg).dateStr, "">>
                     /\ Wrote(last', "writeLu") /\ Wrote(last', "writeReadme")
                     /\ LastUpdateLines(readme') # <<>>
                     /\ Head(LastUpdateLines(readme')) =
                          LastUpdateLine(Scrape(last'.pg).rawPatch,
                                         Scrape(last'.pg).dateStr) ) ) ]_vars

\* a repair run that took the pair of the ledger although the page and the
\* old sidecar both named another release
C11_Witness ==
  /\ last.repair /\ Reached(last) /\ UsableScrape(last.pg)
  /\ FullRow(parseFirstRowFromMd(md))
  /\ Release(last.pg) # parseFirstRowFromMd(md)
  /\ lu = <<parseFirstRowFromMd(md)[2], parseFirstRowFromMd(md)[1], "">>
  /\ lu # <<Scrape(last.pg).rawPatch, Scrape(last.pg).dateStr, "">>
  /\ last.ev = <<"writeLu", "writeReadme", "close">>

\* C12 as stated: a repair-mode run in which neither the first row of the
\* ledger nor the scrape gives both a date and a patch clicks no button,
\* saves no file, writes none of grids.md, last_update.txt and README.md,
\* and closes the browser.
C12_UnresolvableWritesNothing ==
  [][ ( /\ RunStep /\ last'.repair /\ Reached(last')
        /\ ~FullRow(FirstRow) /\ ~UsableScrape(last'.pg) )
      => ( /\ NoDownload(last') /\ NoWrite(last')
           /\ md' = md /\ lu' = lu /\ readme' = readme /\ grids' = grids
           /\ Wrote(last', "close") ) ]_vars

\* the run that leads to the next state read buttonCount (line 138 in the
\* rebuild of repair mode, line 366 otherwise) and found fewer than three
CountedTooFew ==
  /\ Reached(last') /\ last'.pg.buttons < NumGrids
  /\ IF last'.repair
     THEN FirstRow = NullRow /\ UsableScrape(last'.pg)
     ELSE last'.force \/ ~last'.loc.entry_exists

\* C13 as stated: in normal, force and repair mode, a run that does not find
\* the panel or the container, or that counts fewer than three buttons,
\* leaves grids.md, last_update.txt and README.md as they were.
C13_StructuralFailureNoWrites ==
  [][ ( RunStep /\ (~Reached(last') \/ CountedTooFew) )
      => ( md' = md /\ lu' = lu /\ readme' = readme /\ NoWrite(last') ) ]_vars

\* C14 as stated: every run of grid-updater.ts and of playwright-script.ts
\* calls browser.close() before it ends, whether it ends by success, by a
\* structural failure or by an exception.
C14_BrowserClosed == last.ev # <<>> => Wrote(last, "close")

\* what the run of the step would have been without the force flag
RepairAlone == Main(Disk, FALSE, TRUE, last'.pg, last'.failAt)

\* C15: repair before force.  A run with both flags clicks, saves and writes
\* exactly what the run with the repair flag alone does from the same files
\* and page: the same events in the same order, the same saved files and
\* the same contents of grids.md, last_update.txt, README.md and ./grids.
C15_RepairOverForce ==
  [][ ( RunStep /\ last'.repair /\ last'.force )
      => ( /\ last'.ev = RepairAlone.ev
           /\ last'.saved = RepairAlone.saved
           /\ md' = RepairAlone.md
           /\ lu' = RepairAlone.lu
           /\ readme' = RepairAlone.readme
           /\ grids' = RepairAlone.grids ) ]_vars

\* a run with both flags on a page with three buttons and a ledger that has
\* a first row: nothing was downloaded, as in repair mode, and the sidecar
\* was written, which force mode alone never does for a recorded release
C15_Witness ==
  /\ last.repair /\ last.force /\ ThreeButtons(last)
  /\ FullRow(parseFirstRowFromMd(md))
  /\ NoDownload(last)
  /\ last.ev = <<"writeLu", "writeReadme", "close">>

RemoveAt(lines, k) == SubSeq(lines, 1, k - 1) \o SubSeq(lines, k + 1, Len(lines))

\* the line is a row for the release the run scraped
RowFor(ln, pg) == Len(ln) = 7 /\ <<ln[2], ln[3]>> = Release(pg)

\* C16: the insertion only adds.  When a normal- or force-mode run writes
\* grids.md and the file had a separator, the new text is the old text with
\* one line added, the row of the scraped release: every old line is there,
\* unchanged and in its place relative to the others.  When the file had no
\* separator (or was empty or missing), the old non-blank lines are followed
\* by a header, a separator and the row.
C16_AppendOnly ==
  [][ ( RunStep /\ ~last'.repair /\ Wrote(last', "writeMd") )
      => IF EmptyOrNoSeparator(md)
         THEN /\ SelectSeq(md', NonBlank) =
                   SelectSeq(md, NonBlank) \o <<HeaderLine, SepLine, md'[Len(md') - 1]>>
              /\ RowFor(md'[Len(md') - 1], last'.pg)
              /\ md \notin {Absent, EmptyText} => SubSeq(md', 1, Len(md)) = md
         ELSE \E k \in 1..Len(md') :
                /\ RemoveAt(md', k) = md
                /\ RowFor(md'[k], last'.pg) ]_vars

\* a run put a third row above the two rows of the ledger
C16_Witness ==
  /\ ~last.repair /\ Wrote(last, "writeMd")
  /\ Len(DataRowPairs(md)) = 3
  /\ DataRowPairs(md)[1] = Release(last.pg)
  /\ SubSeq(DataRowPairs(md), 2, 3) = << <<DateStr2, "7.39d">>, <<DateStr1, "7.39d">> >>

\* the (date, patch) last_update.txt gives, read as the code reads it
SidecarPair == <<readLastUpdateFile(lu)[2], readLastUpdateFile(lu)[1]>>

\* C17 as stated: from absent files, after any sequence of completed runs
\* the (date, patch) of last_update.txt, when the file is there, is the pair
\* of the first row of grids.md or the release the most recent run scraped.
C17_MarkerConsistent ==
  lu # Absent
  => \/ SidecarPair = parseFirstRowFromMd(MdContent(Disk))
     \/ (last.pg.panel /\ SidecarPair = Release(last.pg))

\* the places of a README text where the 'Last update' pattern matches
MatchingLines(file) == SelectSeq(file, LAMBDA ln : IsLastUpdateLine(ln) \/ ln = CrLine)

\* C18 as stated: from a README that is missing or has at most one line
\* matching the 'Last update' pattern, after one or more calls of
\* updateReadmeLastUpdate and ensureReadmeHasLastUpdate the text has exactly
\* one matching line.
C18_OneLastUpdateLine ==
  budget < MaxCalls => Len(MatchingLines(readme)) = 1

\* C19 as stated: a file name that has had an entry in grid_hashes.txt has
\* one after every later run of the hash generator, whether or not the file
\* is still in ./grids.
C19_NeverPruned == \A i \in 1..Len(seen) : seen[i] \in EntryNames(hashes)

\* C19 amended: a run of the hash generator that finds a .json file leaves
\* entries for exactly the .json files that are in ./grids at that time, so
\* the entry of a file that has been removed is dropped; a run that finds
\* no .json file leaves grid_hashes.txt as it was.
C19_Amended ==
  [][ RunGenerateHashes
      => IF jsonFiles(grids) = {}
         THEN hashes' = hashes
         ELSE /\ EntryNames(hashes') = jsonFiles(grids)
              /\ \A file \in EntryNames(hashes) \ grids : file \notin EntryNames(hashes') ]_vars

\* a file name had an entry, the file was removed, and the next run of the
\* generator wrote a dictionary without it
C19_Witness ==
  /\ hashes # Absent
  /\ EntryNames(hashes) = jsonFiles(grids)
  /\ \E i \in 1..Len(seen) : seen[i] \notin EntryNames(hashes) /\ seen[i] \notin grids

\* C20: round trip of the ledger.  The table rendered from a list of
\* entries (header, separator, one row per entry), read by the row scan of
\* hasEntryInMd, gives the (date, patch) of the entries, in their order,
\* whether the link cells are filled or empty.
C20_RoundTrip ==
  ScanRows(md) = [i \in 1..Len(seen) |-> <<seen[i].date, seen[i].patch>>]

\* two different entries, one of them without links, were rendered and read
C20_Witness ==
  /\ Len(seen) = 2
  /\ seen[1].files = <<"", "", "">>
  /\ seen[2].patch = <<"--">>
  /\ seen[1].date = <<"Oct", Sp, "12">>
  /\ Len(md) = 5
  /\ ScanRows(md) = << <<seen[1].date, seen[1].patch>>, <<seen[2].date, <<"--">> >> >>

----------------------------------------------------------------------------
(* C21 .. C30 *)

Blank(line) == \A i \in 1..Len(line) : line[i] = Sp

\* the line is the word with blanks before and after it
Padded(line, word) ==
  /\ word # <<>> /\ word[1] # Sp /\ word[Len(word)] # Sp
  /\ \E a \in 0..Len(line) :
       /\ a + Len(word) <= Len(line)
       /\ SubSeq(line, a + 1, a + Len(word)) = word
       /\ Blank(SubSeq(line, 1, a))
       /\ Blank(SubSeq(line, a + Len(word) + 1, Len(line)))

\* the file is missing, unreadable or empty, or its first or its second
\* line is missing or blank
NoMarker(file) ==
  \/ file = Absent \/ file = Unreadable
  \/ Blank(file[1])
  \/ Len(file) < 2
  \/ Blank(file[2])

\* C21: readLastUpdateFile never throws.  It returns null for a sidecar
\* that is missing, unreadable or empty or whose first or second line is
\* blank or missing, and otherwise the patch and the date without the
\* blanks around them; after writeLastUpdateFile(p, d) it returns (p, d).
C21_ReadLastUpdate ==
  /\ readLastUpdateText(lu) # Thrown
  /\ NoMarker(lu) => readLastUpdateText(lu) = NullLU
  /\ ~NoMarker(lu)
       => /\ Len(readLastUpdateText(lu)) = 2
          /\ Padded(lu[1], readLastUpdateText(lu)[1])
          /\ Padded(lu[2], readLastUpdateText(lu)[2])
  /\ seen # <<>> => readLastUpdateText(lu) = seen

\* a patch and a date with a blank inside were written and read back
C21_Witness ==
  /\ budget = MaxSidecarSteps - 2
  /\ seen = << <<"7.39d", Sp, "beta">>, <<"Oct", Sp, "12">> >>
  /\ lu = << <<"7.39d", Sp, "beta">>, <<"Oct", Sp, "12">>, <<>> >>
  /\ readLastUpdateText(lu) = seen

\* C22: when the desktop shell starts, each preference the user has changed
\* is loaded with the value the user chose last.
C22_SettingsPersist ==
  [][Launch => \A key \in seen.changed : app'[key] = seen.value[key]]_vars

\* the files of the remote list that belong to the release
FilesOfRelease(remoteGrids, date, patch) ==
  {remoteGrids[i].name : i \in {j \in 1..Len(remoteGrids) :
      remoteGrids[j].date = date /\ PatchOf(remoteGrids[j].name) = patch}}

Members(group) == {group.d2pt.name, group.highWinrate.name, group.mostPlayed.name} \ {<<>>}

\* C23: the listing has exactly one group for each (date, patch) of the
\* files listed, and the group shows the patch and the files of that release.
C23_GroupsByDateAndPatch ==
  [][Launch =>
       \A g \in 1..Len(seen'.remote) :
         \E i \in 1..Len(app'.grids) :
           /\ app'.grids[i].date = seen'.remote[g].date
           /\ app'.grids[i].patch = PatchOf(seen'.remote[g].name)
           /\ Members(app'.grids[i])
                = FilesOfRelease(seen'.remote, seen'.remote[g].date,
                                 PatchOf(seen'.remote[g].name))
           /\ \A j \in 1..Len(app'.grids) :
                (/\ app'.grids[j].date = app'.grids[i].date
                 /\ app'.grids[j].patch = app'.grids[i].patch) => j = i]_vars

\* a force-mode run that found three buttons, for a release that had a row
ForceOnEntry ==
  /\ RunStep /\ last'.force /\ ~last'.repair /\ ThreeButtons(last')
  /\ ~last'.threw /\ last'.loc.entry_exists

ReadmeNames(file, patch, date) ==
  /\ LastUpdateLines(file) # <<>>
  /\ Head(LastUpdateLines(file)) = LastUpdateLine(patch, date)

\* C24 as stated: a force-mode run for a release that has a ledger entry
\* rewrites the README line with the date and patch of the ledger's first
\* row when that row gives both, and with the scraped date and patch when it
\* does not (and the scrape gives both).
C24_ForceSyncPrefersLedger ==
  [][ ForceOnEntry
      => ( /\ FullRow(FirstRow)
                => ( /\ Wrote(last', "writeReadme")
                     /\ ReadmeNames(readme', FirstRow[2], FirstRow[1]) )
           /\ ( ~FullRow(FirstRow) /\ UsableScrape(last'.pg) )
                => ( /\ Wrote(last', "writeReadme")
                     /\ ReadmeNames(readme', Scrape(last'.pg).rawPatch,
                                    Scrape(last'.pg).dateStr) ) ) ]_vars

\* the ledger has a row whose date and patch are those of the page
HasRowFor(file, pg) == \E i \in 1..Len(file) : RowFor(file[i], pg)

\* C25 as stated: a force-mode run that saves three files for a release
\* without a ledger entry inserts the row of that release, whatever
\* last_update.txt says.
C25_ForceInsertsMissingRow ==
  [][ ( /\ RunStep /\ last'.force /\ ~last'.repair /\ ThreeButtons(last')
        /\ ~last'.threw /\ Len(last'.saved) = NumGrids
        /\ ~last'.loc.entry_exists )
      => ( /\ Wrote(last', "writeMd")
           /\ HasRowFor(md', last'.pg) ) ]_vars

\* the index of the event in the run's events; 0: not there
RECURSIVE EventIndex(_, _, _)
EventIndex(ev, e, i) ==
  IF i > Len(ev) THEN 0
  ELSE IF ev[i] = e THEN i
  ELSE EventIndex(ev, e, i + 1)

\* the run of grid-updater.ts saved its three files before it wrote grids.md
ThreeSavedBeforeWrite(l) ==
  /\ Len(l.saved) = NumGrids
  /\ \A i \in 1..NumGrids :
       /\ EventIndex(l.ev, "save" \o ToString(i), 1) > 0
       /\ EventIndex(l.ev, "save" \o ToString(i), 1) < EventIndex(l.ev, "writeMd", 1)

\* C26: in every mode, a run writes grids.md only after it has saved its
\* three files; a run that saves fewer than three (fewer than three
\* buttons, or the first, second or third download throws) leaves grids.md
\* as it was.
C26_LedgerAfterDownloads ==
  [][ ( RunStep /\ last'.prog = Updater )
      => ( /\ Wrote(last', "writeMd") => ThreeSavedBeforeWrite(last')
           /\ md' # md => Wrote(last', "writeMd")
           /\ Len(last'.saved) < NumGrids
                => ( md' = md /\ ~Wrote(last', "writeMd") ) ) ]_vars

\* a repair-mode run whose third download threw after two files were saved:
\* the exception was caught and grids.md stayed empty
C26_Witness ==
  /\ last.prog = Updater /\ last.repair /\ last.failAt = NumGrids
  /\ Len(last.saved) = NumGrids - 1
  /\ InSeq("caught", last.ev) /\ ~Wrote(last, "writeMd")
  /\ md = EmptyText

\* the ledger has, somewhere below its separator, a row of seven cells with a
\* date and a patch
HasWellFormedRow(file) ==
  /\ file # Absent /\ SepIndex(file) > 0
  /\ \E i \in (SepIndex(file) + 1)..Len(file) :
       Len(file[i]) = 7 /\ file[i][2] # "" /\ file[i][3] # ""

\* C27 as stated: a repair-mode run on a ledger that has a well-formed data
\* row somewhere below its separator clicks no button, saves no file and
\* leaves grids.md as it was.
C27_RepairKeepsRows ==
  [][ ( RunStep /\ last'.repair /\ Reached(last') /\ HasWellFormedRow(md) )
      => ( NoDownload(last') /\ ~Wrote(last', "writeMd") /\ md' = md ) ]_vars

\* C28 as stated: the pair a repair-mode run writes to last_update.txt and
\* to the README line is the (date, patch) of the ledger's first row or the
\* scraped (date, patch), never the date of one with the patch of the other.
C28_RepairSingleSource ==
  [][ ( RunStep /\ last'.repair /\ Reached(last') /\ Wrote(last', "writeLu") )
      => \/ /\ FullRow(FirstRow)
            /\ lu' = <<FirstRow[2], FirstRow[1], "">>
            /\ ReadmeNames(readme', FirstRow[2], FirstRow[1])
         \/ /\ UsableScrape(last'.pg)
            /\ lu' = <<Scrape(last'.pg).rawPatch, Scrape(last'.pg).dateStr, "">>
            /\ ReadmeNames(readme', Scrape(last'.pg).rawPatch, Scrape(last'.pg).dateStr) ]_vars

\* C29 as stated: from absent files, after any sequence of runs in any
\* modes, when last_update.txt exists grids.md has a row with the date and
\* patch the file gives.
C29_MarkerNamesRecordedRelease ==
  lu # Absent => InSeq(SidecarPair, DataRowPairs(md))

\* a normal-mode run that scraped a date and a patch and found three buttons
NormalRunOn(l) == Normal(l) /\ ThreeButtons(l) /\ UsableScrape(l.pg) /\ ~l.threw

\* grids.md has a row for the release, its patch raw or as a slug
LedgerHas(file, s) ==
  file # Absent /\ hasEntryInMd(file, s.dateStr, s.rawPatch, s.patchStr)

\* C30 as stated: whatever grids.md, last_update.txt and README.md hold, after
\* a normal-mode run that scrapes a release and finds three buttons grids.md
\* has a row for the release and last_update.txt gives the release (the
\* patch raw or as a slug, in both), and the README line names its date and
\* patch.
C30_NormalConverges ==
  [][ ( RunStep /\ NormalRunOn(last') )
      => ( /\ LedgerHas(md', Scrape(last'.pg))
           /\ SameAs(readLastUpdateFile(lu'), Scrape(last'.pg))
           /\ ReadmeNames(readme', Scrape(last'.pg).rawPatch, Scrape(last'.pg).dateStr) ) ]_vars

----------------------------------------------------------------------------
(* C31 .. C39 *)

\* the row is not blank, splits into three cells or more, and its second
\* and third cell are the date and one of the patches
RowMatches(ln, date, patchA, patchB) ==
  /\ Trim(ln) # <<>>
  /\ Len(TextCols(Trim(ln))) >= 3
  /\ TextCols(Trim(ln))[2] = date
  /\ \/ TextCols(Trim(ln))[3] = patchA
     \/ (patchB # <<>> /\ TextCols(Trim(ln))[3] = patchB)

\* C31: hasEntryInMd is true exactly when the text has a separator line and
\* a later non-blank row of three cells or more whose date cell is the date
\* and whose patch cell is patchA or the patchB given; shorter rows are
\* skipped; the empty text and a text without separator give false.
C31_HasEntry ==
  seen.op = "hasEntryInMd"
  => ( seen.found
       <=> ( /\ md # NoText
             /\ \E s \in 1..Len(md) :
                  /\ IsSepText(md[s])
                  /\ \A j \in 1..(s - 1) : ~IsSepText(md[j])
                  /\ \E i \in (s + 1)..Len(md) :
                       RowMatches(md[i], seen.date, seen.patchA, seen.patchB) ) )

\* the entry was found below a '|' line and a row of two cells
C31_Witness ==
  /\ seen.op = "hasEntryInMd" /\ seen.found
  /\ seen.date = <<"2025-10-12">> /\ seen.patchA = <<"7.39d">> /\ seen.patchB = <<"p7_39d">>
  /\ md = <<HeaderText, SepText, <<Bar>>, <<Bar, Sp, "2025-10-12">>, RowOne, <<>>>>

\* the first entry the row scan of hasEntryInMd sees, NullRow for none
FirstScanned(lines) ==
  IF ScanRows(lines) = <<>> THEN NullRow ELSE ScanRows(lines)[1]

\* C32: parseFirstRowFromMd returns null exactly when the ledger has no
\* well-formed data row after its separator, and otherwise the (date, patch)
\* of the first such row: the first entry the row scan of hasEntryInMd sees.
C32_FirstRowAgreesWithScan ==
  seen.op = "parseFirstRowFromMd" => seen.row = FirstScanned(md)

\* the last n lines of a text
LastLines(lines, n) == SubSeq(lines, Len(lines) - n + 1, Len(lines))

\* the table block of the entry just inserted, with the final empty line
BlockOf(date, patch) ==
  { <<HeaderText, SepText, RenderRow(e), <<>>>> :
      e \in { x \in TextEntries : x.date = date /\ x.patch = patch } }

\* C33: after the insert step the ledger has a separator, parseFirstRowFromMd
\* returns the (date, patch) of the entry and hasEntryInMd finds it; an empty
\* ledger becomes exactly header, separator and the row, and a ledger without
\* separator keeps its lines, followed by a new header, separator and row.
C33_InsertFirstAndFindable ==
  seen.op = "insert" =>
    /\ SepTextIndex(md) > 0
    /\ parseFirstRowFromText(md) = <<seen.date, seen.patchA>>
    /\ hasEntryInText(md, seen.date, seen.patchA, <<>>)
    /\ seen.before = NoText => md \in BlockOf(seen.date, seen.patchA)
    /\ (seen.before # NoText /\ SepTextIndex(seen.before) = 0) =>
         /\ Len(md) > Len(seen.before) + 4
         /\ SubSeq(md, 1, Len(seen.before)) = seen.before
         /\ LastLines(md, 4) \in BlockOf(seen.date, seen.patchA)
         /\ \A k \in (Len(seen.before) + 1)..(Len(md) - 4) : md[k] = <<>>

\* a row was inserted above a blank line and an older row
C33_Witness ==
  /\ seen.op = "insert"
  /\ seen.date = <<"2025-11-03">> /\ seen.patchA = <<"p7_40">>
  /\ seen.before = <<HeaderText, SepText, <<>>, RowOne, <<>>>>
  /\ Len(md) = 6 /\ md[3] # <<>> /\ md[5] = RowOne

\* a text without its lines i and i + 1
WithoutTwo(lines, i) == SubSeq(lines, 1, i - 1) \o SubSeq(lines, i + 2, Len(lines))

\* new is old with the blank line and the metadata line put in at line i
PutInAt(old, new, i, patch, date) ==
  /\ Len(new) = Len(old) + 2
  /\ new[i] = BlankLine
  /\ new[i + 1] = LastUpdateLine(patch, date)
  /\ WithoutTwo(new, i) = old

\* what the claim says of one call updateReadmeLastUpdate(patch, date)
PlacedAsDocumented(old, new, patch, date) ==
  /\ old = Absent =>
       /\ new # Absent
       /\ IsTitleLine(new[1])
       /\ LastUpdateLines(new) = <<LastUpdateLine(patch, date)>>
  /\ (old # Absent /\ LastUpdateIndex(old) # 0) =>
       /\ Len(new) = Len(old)
       /\ new[LastUpdateIndex(old)] = LastUpdateLine(patch, date)
       /\ \A k \in 1..Len(old) : k # LastUpdateIndex(old) => new[k] = old[k]
  /\ (old # Absent /\ LastUpdateIndex(old) = 0 /\ TitleIndex(old) # 0) =>
       PutInAt(old, new, TitleIndex(old) + 1, patch, date)
  /\ (old # Absent /\ LastUpdateIndex(old) = 0 /\ TitleIndex(old) = 0) =>
       PutInAt(old, new, Len(old) + 1, patch, date)

\* C34: updateReadmeLastUpdate replaces the first 'Last update' line where it
\* stands and changes no other line; without such a line it puts the metadata
\* line after the first top-level heading, or at the end when there is no
\* heading; a missing file is created with a title and the metadata line; a
\* second call with the same date and patch leaves the file as the first left it.
C34_ReadmePlacement ==
  [][\A patch \in CallPatches, date \in CallDates :
       readme' = updateReadmeLastUpdate(readme, patch, date) =>
         /\ PlacedAsDocumented(readme, readme', patch, date)
         /\ updateReadmeLastUpdate(readme', patch, date) = readme']_vars

\* a line written by hand was replaced where it stood, below a line of text
C34_Witness ==
  /\ budget < MaxCalls
  /\ readme = <<Title, <<"text">>, LastUpdateLine("7.40", DateStr2)>>

Sentinels == {"unknown_date", "unknown_patch_raw"}

\* a ledger row or a line of last_update.txt holds a sentinel
SentinelInLedger ==
  \E i \in 1..Len(DataRowPairs(md)) :
    DataRowPairs(md)[i][1] \in Sentinels \/ DataRowPairs(md)[i][2] \in Sentinels

SentinelInSidecar == \E i \in 1..Len(lu) : lu[i] \in Sentinels

\* C35: after any sequence of runs in any modes no row of grids.md and no
\* line of last_update.txt holds "unknown_date" or "unknown_patch_raw", also
\* when the page lacks the 'Last update' text.
C35_NoSentinelPersisted == ~SentinelInLedger /\ ~SentinelInSidecar

Saves == {"save1", "save2", "save3"}

\* the downloads triggered and not yet saved after the first k events
InFlight(ev, k) ==
  Cardinality({i \in 1..k : ev[i] \in Clicks}) - Cardinality({i \in 1..k : ev[i] \in Saves})

\* the cell of a link to a file of ./grids
LinkTo(fname) == "[Download](grids/" \o fname \o ")"

\* the line directly below the separator of grids.md
TopRow == md[SepIndex(md) + 1]

\* C36: within a run the file of button i is saved, under the name
\* <suggested name>_<date>_<patch slug>.json, before button i + 1 is
\* clicked, at most one download is in flight at any time, and the three
\* link cells of the row the run writes name the files of buttons 1, 2 and 3
\* in that order.
C36_SequentialDownloads ==
  last.prog = Updater =>
    /\ \A k \in 0..Len(last.ev) : InFlight(last.ev, k) \in {0, 1}
    /\ \A i \in 1..(NumGrids - 1) :
         Wrote(last, "click" \o ToString(i + 1)) =>
           /\ EventIndex(last.ev, "save" \o ToString(i), 1) > 0
           /\ EventIndex(last.ev, "save" \o ToString(i), 1)
                < EventIndex(last.ev, "click" \o ToString(i + 1), 1)
    /\ \A i \in 1..Len(last.saved) :
         /\ Wrote(last, "save" \o ToString(i))
         /\ ~last.repair =>
              last.saved[i] = Suggested[i] \o "_" \o Scrape(last.pg).dateStr \o "_"
                              \o Scrape(last.pg).patchStr \o ".json"
    /\ Wrote(last, "writeMd") =>
         /\ Len(last.saved) = NumGrids
         /\ SubSeq(TopRow, 4, 6)
              = <<LinkTo(last.saved[1]), LinkTo(last.saved[2]), LinkTo(last.saved[3])>>

\* a normal-mode run saved three files one after the other and wrote their
\* row above an older one
C36_Witness ==
  /\ last.prog = Updater /\ ~last.force /\ ~last.repair
  /\ Len(last.ev) >= 7
  /\ SubSeq(last.ev, 1, 7)
       = <<"click1", "save1", "click2", "save2", "click3", "save3", "writeMd">>
  /\ md # Absent /\ SepIndex(md) > 0 /\ Len(md) >= SepIndex(md) + 2
  /\ TopRow[4] = LinkTo("d2pt_rating_2025-11-03_p7_39d.json")
  /\ IsDataRow(md[SepIndex(md) + 2])

\* the lines of grid_hashes.txt before the empty line that ends the text
HashLines(file) == SubSeq(file, 1, Len(file) - 1)

\* one 'filename,digest' line for each file of the set and no other line
MirrorsFolder(file, files, content) ==
  /\ file # Absent
  /\ file[Len(file)] = BlankLine
  /\ Len(HashLines(file)) = Cardinality(files)
  /\ \A i \in 1..Len(HashLines(file)) :
       /\ Len(file[i]) = 2
       /\ file[i][1] \in files
       /\ file[i][2] = calculateMD5(content[file[i][1]])
  /\ \A i, j \in 1..Len(HashLines(file)) : file[i][1] = file[j][1] => i = j

\* C37: a run of the hash generator that finds a .json file leaves in
\* grid_hashes.txt one 'filename,digest' line for each .json file that is in
\* ./grids and no other line, the digest being that of the file's bytes (so two
\* files with the same bytes have the same digest); a run that finds no .json
\* file leaves grid_hashes.txt as it was.
C37_HashesMirrorFolder ==
  [][ RunGenerateHashes
      => /\ jsonFiles(grids) = {} => hashes' = hashes
         /\ jsonFiles(grids) # {} =>
              /\ MirrorsFolder(hashes', jsonFiles(grids), bytes)
              /\ \A i, j \in 1..Len(HashLines(hashes')) :
                   bytes[hashes'[i][1]] = bytes[hashes'[j][1]]
                     => hashes'[i][2] = hashes'[j][2] ]_vars

\* the dictionary lists two .json files with the same bytes under the same
\* digest, beside a file of another kind that has no line
C37_Witness ==
  /\ hashes # Absent /\ Len(hashes) = 3
  /\ hashes[1][1] # hashes[2][1] /\ hashes[1][2] = hashes[2][2]
  /\ {hashes[1][1], hashes[2][1]} = jsonFiles(grids)
  /\ grids # jsonFiles(grids)

\* run p inserted its row
Inserted(p) == seen[p].wroteAt > 0

\* grids.md has a row for the release run p scraped
RowOnDisk(p) == InSeq(Release(seen[p].pg), DataRowPairs(md))

\* run b read grids.md before run a wrote it and wrote it after run a
Overlapped(a, b) ==
  /\ Inserted(b)
  /\ seen[b].readAt < seen[a].wroteAt
  /\ seen[a].wroteAt < seen[b].wroteAt

\* C38: a run reads the ledger once and later writes a text derived from that
\* read, without a lock, so two overlapping normal-mode runs can lose a row:
\* the row a run inserted is missing from grids.md exactly when the other run,
\* for another release, read the ledger before that insert and wrote after it.
C38_OverlapLosesRow ==
  \A a, b \in Procs :
    (a # b /\ Inserted(a)) =>
      ( ~RowOnDisk(a)
          <=> (Overlapped(a, b) /\ Release(seen[a].pg) # Release(seen[b].pg)) )

\* both runs have inserted a row and finished; the row of one is gone
C38_Witness ==
  /\ \A p \in Procs : seen[p].pc = "done" /\ Inserted(p)
  /\ \E a \in Procs : ~RowOnDisk(a)
  /\ Len(DataRowPairs(md)) >= 2

\* the calls of handleApplyGrid whose activate_grid has not answered
InFlightActivations ==
  {i \in 1..Len(seen.calls) : seen.calls[i].at = "activate_grid"}

\* C39: whatever Apply buttons are clicked, at most one activate_grid is in
\* flight (at most one call of handleApplyGrid has not returned); a click
\* while one is in flight changes nothing; the marker applyingGrid is set
\* exactly while a call has not returned, and names its grid, so that it is
\* cleared when the call ends, by success or by error.
C39_SingleFlight ==
  /\ Cardinality(InFlightActivations) <= 1
  /\ Len(seen.calls) <= 1
  /\ app.applyingGrid = "" <=> seen.calls = <<>>
  /\ seen.calls # <<>> => app.applyingGrid = seen.calls[1].grid.download_url
  /\ seen.started = seen.succeeded + seen.failed + Len(seen.calls)
  /\ seen.click = "ignored" =>
       /\ seen.before[2] # <<>>
       /\ <<app, seen.calls>> = seen.before
  /\ seen.click = "started" => seen.before[2] = <<>>

\* a click on the other grid was ignored, the first application ended in an
\* error, and a later click started a new one
C39_Witness ==
  /\ seen.ignored >= 1
  /\ seen.failed = 1
  /\ seen.started = 2
  /\ seen.click = "started"
  /\ Len(seen.calls) = 1
  /\ app.applyingGrid = "raw/most_played"

====
